---------------------------- MODULE Spec2Model ----------------------------
(***************************************************************************)
(* Burke Vision Lab quick-CSF: the Bayesian adaptive engine                *)
(* (src/qcsf-engine.js, QCSFEngine) and the v7 display controller          *)
(* (src/app.js) that drives it.                                            *)
(*                                                                         *)
(* Numbers.  The program computes in IEEE doubles.  The model computes in  *)
(* fixed point: an integer x stands for the real x / SCALE, every product  *)
(* and quotient is rounded down to the grid, and NaN is a value of its own *)
(* that every arithmetic operation propagates and every comparison         *)
(* rejects, as in JavaScript.  Math.log2, Math.log10, Math.pow(10, .) and  *)
(* Math.exp are computed by linear interpolation between the powers of     *)
(* two.                                                                    *)
(***************************************************************************)
EXTENDS Integers, Sequences, FiniteSets, TLC

(***************************************************************************)
(* Fixed-point arithmetic with NaN                                         *)
(***************************************************************************)

\* One unit of the grid is 1/SCALE: the clamp bounds 0.001 and 0.999 of the
\* likelihood matrix are 1 and SCALE - 1.
SCALE == 1000

\* The double NaN (also what arithmetic makes of undefined).
NaN == -(2000 * SCALE * SCALE)

IsNaN(x) == x = NaN

Add(a, b) == IF IsNaN(a) \/ IsNaN(b) THEN NaN ELSE a + b

Sub(a, b) == IF IsNaN(a) \/ IsNaN(b) THEN NaN ELSE a - b

Mul(a, b) == IF IsNaN(a) \/ IsNaN(b) THEN NaN ELSE (a * b) \div SCALE

\* a / b; 0 / 0 is NaN.  No caller divides a non-zero value by zero.
Div(a, b) == IF IsNaN(a) \/ IsNaN(b) \/ b = 0 THEN NaN ELSE (a * SCALE) \div b

\* Comparisons: false as soon as one side is NaN.
Lt(a, b) == ~IsNaN(a) /\ ~IsNaN(b) /\ a < b

Gt(a, b) == ~IsNaN(a) /\ ~IsNaN(b) /\ a > b

Le(a, b) == ~IsNaN(a) /\ ~IsNaN(b) /\ a <= b

Ge(a, b) == ~IsNaN(a) /\ ~IsNaN(b) /\ a >= b

\* Math.max / Math.min: NaN if either argument is NaN.
MathMax(a, b) == IF IsNaN(a) \/ IsNaN(b) THEN NaN ELSE IF a >= b THEN a ELSE b

MathMin(a, b) == IF IsNaN(a) \/ IsNaN(b) THEN NaN ELSE IF a <= b THEN a ELSE b

\* Number.isFinite
IsFinite(x) == ~IsNaN(x)

\* The powers of two 2^0 .. 2^30.
PowersOfTwo ==
    <<1, 2, 4, 8, 16, 32, 64, 128, 256, 512, 1024, 2048, 4096, 8192, 16384, 32768,
      65536, 131072, 262144, 524288, 1048576, 2097152, 4194304, 8388608, 16777216,
      33554432, 67108864, 134217728, 268435456, 536870912, 1073741824>>

TwoTo(k) == PowersOfTwo[k + 1]

\* floor(log2 n) for n in lo..hi-th power range, by bisection on the exponent.
RECURSIVE FloorLog2In(_, _, _)
FloorLog2In(n, lo, hi) ==
    IF lo = hi THEN lo
    ELSE LET mid == (lo + hi + 1) \div 2
         IN  IF n >= TwoTo(mid) THEN FloorLog2In(n, mid, hi)
             ELSE FloorLog2In(n, lo, mid - 1)

FloorLog2(n) == FloorLog2In(n, 0, 30)

\* log2 of the integer n >= 1, in units, interpolated between powers of two.
RawLog2(n) ==
    LET k == FloorLog2(n)
        p == TwoTo(k)
    IN  k * SCALE + ((n - p) * SCALE) \div p

\* Math.log2(x).  x <= 0 gives NaN (callers guard against it).
Log2(x) == IF IsNaN(x) \/ x <= 0 THEN NaN ELSE RawLog2(x) - RawLog2(SCALE)

\* 2^y, the inverse interpolation; saturates above 2^20 and below 2^-20.
Pow2(y) ==
    IF IsNaN(y) THEN NaN
    ELSE LET e == y \div SCALE
             m == SCALE + (y - e * SCALE)
         IN  IF e > 20 THEN m * TwoTo(20)
             ELSE IF e >= 0 THEN m * TwoTo(e)
             ELSE IF e < -20 THEN 0 ELSE m \div TwoTo(-e)

\* Math.log10(x) = log2(x) * log10(2)
Log10(x) == Mul(Log2(x), 301)

\* Math.pow(10, y) = 2^(y / log10(2))
Pow10(y) == Pow2(Div(y, 301))

\* Math.exp(z) = 2^(z * log2(e))
Exp(z) == Pow2(Mul(z, 1443))

\* Math.pow(x, 2) and Math.pow(x, 4)
Sq(x) == Mul(x, x)

Pow4(x) == Sq(Sq(x))

\* Sum of a sequence of numbers, left to right as the loops add them.
RECURSIVE SumSeq(_)
SumSeq(s) == IF s = <<>> THEN 0 ELSE Add(SumSeq(SubSeq(s, 1, Len(s) - 1)), s[Len(s)])

(***************************************************************************)
(* src/unnamed/part_007 (utils.js)                                         *)
(***************************************************************************)

\* linspace(a, b, n): n evenly spaced values; n = 1 divides 0 by 0.
linspace(a, b, n) ==
    [i \in 1..n |-> Add(a, Div(Mul(Sub(b, a), (i - 1) * SCALE), (n - 1) * SCALE))]

(***************************************************************************)
(* The CSF model                                                           *)
(***************************************************************************)

\* 60 cpd
MAX_HUMAN_CUTOFF_CPD == 60000

\* logS(f) = g - b * delta^2 - [delta > 0] * d * delta^4
logParabolaCSF(freq, g, f, b, d) ==
    LET safeFreq == MathMax(50, freq)
        logF == Log10(safeFreq)
        logPeak == Log10(MathMax(200, f))
        delta == Sub(logF, logPeak)
        baseDrop == Mul(MathMax(200, b), Sq(delta))
        highFreqDrop == IF Gt(delta, 0) THEN Mul(MathMax(200, d), Pow4(delta)) ELSE 0
    IN  Sub(Sub(g, baseDrop), highFreqDrop)

(***************************************************************************)
(* QCSFEngine: construction                                                *)
(***************************************************************************)

\* Sizes of the model's default grids (the program's DEFAULTS hold 10 gains
\* and 30 log-contrasts; the model keeps the end points and the spacing rule).
GainSteps == 2

ContrastSteps == 3

DEFAULTS ==
    [ numAFC              |-> 5,
      lapse               |-> 40,
      falseAlarmRate      |-> 10,
      psychometricSlope   |-> 3500,
      peakGainValues      |-> linspace(500, 2800, GainSteps),
      peakFreqValues      |-> <<2500>>,
      bandwidthValues     |-> <<1300>>,
      truncationValues    |-> <<1800>>,
      stimFreqs           |-> <<4000, 24000>>,
      stimLogContrasts    |-> linspace(-3000, 0, ContrastSteps),
      robustLikelihoodMix |-> 30,
      boundarySigmaLogC   |-> 200,
      lowMidFreqBoost     |-> 1350 ]

\* The i-th (1-based) point of the four nested loops g, f, b, d.
GridPoint(cfg, i) ==
    LET nF == Len(cfg.peakFreqValues)
        nB == Len(cfg.bandwidthValues)
        nD == Len(cfg.truncationValues)
        k  == i - 1
    IN  [ g |-> cfg.peakGainValues[(k \div (nF * nB * nD)) + 1],
          f |-> cfg.peakFreqValues[((k \div (nB * nD)) % nF) + 1],
          b |-> cfg.bandwidthValues[((k \div nD) % nB) + 1],
          d |-> cfg.truncationValues[(k % nD) + 1] ]

\* A variant of the pruning that keeps every point.
KeepPoint_all(p) == TRUE

\* A point is kept when the CSF has fallen to logS <= 0 at 60 cpd.
KeepPoint(p) == Le(logParabolaCSF(MAX_HUMAN_CUTOFF_CPD, p.g, p.f, p.b, p.d), 0)

BuildParamGrid(cfg) ==
    LET n == Len(cfg.peakGainValues) * Len(cfg.peakFreqValues)
             * Len(cfg.bandwidthValues) * Len(cfg.truncationValues)
    IN  SelectSeq([i \in 1..n |-> GridPoint(cfg, i)], KeepPoint)

BuildStimGrid(cfg) ==
    LET nC == Len(cfg.stimLogContrasts)
        n  == Len(cfg.stimFreqs) * nC
    IN  [i \in 1..n |-> [ freq        |-> cfg.stimFreqs[((i - 1) \div nC) + 1],
                          logContrast |-> cfg.stimLogContrasts[((i - 1) % nC) + 1] ]]

\* A variant of the matrix entry that is left unclamped.
PCorrect_unclamped(p, stim, gamma, lapse, slopeParam) ==
    LET logSens == logParabolaCSF(stim.freq, p.g, p.f, p.b, p.d)
        x   == Sub(logSens, Sub(0, stim.logContrast))
        psi == Div(SCALE, Add(SCALE, Exp(Mul(Sub(0, slopeParam), x))))
    IN  Add(gamma, Mul(Sub(Sub(SCALE, gamma), lapse), psi))

\* One entry of the likelihood matrix: Pr(correct | hypothesis p, stimulus stim).
PCorrect(p, stim, gamma, lapse, slopeParam) ==
    LET logSens == logParabolaCSF(stim.freq, p.g, p.f, p.b, p.d)
        x   == Sub(logSens, Sub(0, stim.logContrast))
        psi == Div(SCALE, Add(SCALE, Exp(Mul(Sub(0, slopeParam), x))))
        pC  == Add(gamma, Mul(Sub(Sub(SCALE, gamma), lapse), psi))
    IN  MathMax(1, MathMin(SCALE - 1, pC))

precompute(paramGrid, stimGrid, gamma, lapse, slopeParam) ==
    [h \in 1..Len(paramGrid) |->
        [s \in 1..Len(stimGrid) |->
            PCorrect(paramGrid[h], stimGrid[s], gamma, lapse, slopeParam)]]

\* A variant of the guess rate that divides by numAFC in yes/no too.
guessRate_alwaysForcedChoice(cfg) == Div(SCALE, cfg.numAFC * SCALE)

\* this.gamma = this.isYesNo ? cfg.falseAlarmRate : (1 / this.numAFC)
guessRate(cfg) ==
    IF cfg.numAFC <= 1 THEN cfg.falseAlarmRate ELSE Div(SCALE, cfg.numAFC * SCALE)

\* new QCSFEngine(options), cfg = { ...DEFAULTS, ...options }
NewEngine(cfg) ==
    LET isYesNo   == cfg.numAFC <= 1
        gamma     == guessRate(cfg)
        paramGrid == BuildParamGrid(cfg)
        stimGrid  == BuildStimGrid(cfg)
        nParams   == Len(paramGrid)
    IN  [ numAFC              |-> cfg.numAFC,
          isYesNo             |-> isYesNo,
          gamma               |-> gamma,
          lapse               |-> cfg.lapse,
          slopeParam          |-> cfg.psychometricSlope,
          robustLikelihoodMix |-> cfg.robustLikelihoodMix,
          boundarySigmaLogC   |-> cfg.boundarySigmaLogC,
          lowMidFreqBoost     |-> cfg.lowMidFreqBoost,
          paramGrid           |-> paramGrid,
          nParams             |-> nParams,
          stimGrid            |-> stimGrid,
          nStim               |-> Len(stimGrid),
          prior               |-> [h \in 1..nParams |-> Div(SCALE, nParams * SCALE)],
          pCorrectMatrix      |-> precompute(paramGrid, stimGrid, gamma, cfg.lapse,
                                             cfg.psychometricSlope),
          trialCount          |-> 0,
          history             |-> <<>> ]

(***************************************************************************)
(* QCSFEngine: update                                                      *)
(***************************************************************************)

\* pCorrectMatrix[h][stimIndex]; an index outside the row reads undefined,
\* which the arithmetic that follows turns into NaN.  stimIndex is 0-based.
MatrixAt(e, h, stimIndex) ==
    IF stimIndex >= 0 /\ stimIndex < e.nStim THEN e.pCorrectMatrix[h][stimIndex + 1]
    ELSE NaN

\* The likelihood of the observation under hypothesis h, with the robust mix.
PObs(e, h, stimIndex, detected) ==
    LET pCH     == MatrixAt(e, h, stimIndex)
        pObsRaw == IF detected THEN pCH ELSE Sub(SCALE, pCH)
    IN  Add(Mul(Sub(SCALE, e.robustLikelihoodMix), pObsRaw),
            Mul(e.robustLikelihoodMix, 500))

\* The posterior after the in-place multiplication, before renormalising.
Multiplied(e, stimIndex, detected) ==
    [h \in 1..e.nParams |-> Mul(e.prior[h], PObs(e, h, stimIndex, detected))]

\* total, as the loop accumulates it.
UpdateTotal(e, stimIndex, detected) == SumSeq(Multiplied(e, stimIndex, detected))

\* A variant of update that rewrites the whole history to the new record.
update_rewritesHistory(e, stimIndex, detected) ==
    LET m     == Multiplied(e, stimIndex, detected)
        total == SumSeq(m)
        post  == IF Gt(total, 0) THEN [h \in 1..e.nParams |-> Div(m[h], total)]
                 ELSE m
        rec   == [ trial     |-> e.trialCount + 1,
                   stimIndex |-> stimIndex,
                   correct   |-> detected ]
    IN  [e EXCEPT !.prior = post,
                  !.trialCount = e.trialCount + 1,
                  !.history = [k \in 1..(e.trialCount + 1) |-> rec]]

\* update(stimIndex, detected): the engine afterwards.  Nothing is returned
\* and nothing is thrown.
update(e, stimIndex, detected) ==
    LET m     == Multiplied(e, stimIndex, detected)
        total == SumSeq(m)
        post  == IF Gt(total, 0) THEN [h \in 1..e.nParams |-> Div(m[h], total)]
                 ELSE m
    IN  [e EXCEPT !.prior = post,
                  !.trialCount = e.trialCount + 1,
                  !.history = Append(e.history,
                                     [ trial     |-> e.trialCount + 1,
                                       stimIndex |-> stimIndex,
                                       correct   |-> detected ])]

(***************************************************************************)
(* QCSFEngine: posterior summaries and the CSF of an estimate              *)
(***************************************************************************)

\* Sum over the hypotheses h of prior[h] * val[h], accumulated in index order.
WeightedSum(e, val) == SumSeq([h \in 1..e.nParams |-> Mul(e.prior[h], val[h])])

\* The first index holding the largest prior (strict >, so NaN never wins).
RECURSIVE ArgMaxPrior(_, _)
ArgMaxPrior(e, n) ==
    IF n <= 1 THEN 1
    ELSE LET best == ArgMaxPrior(e, n - 1)
         IN  IF Gt(e.prior[n], e.prior[best]) THEN n ELSE best

Threw == [threw |-> TRUE]

\* getEstimate(): the posterior mode.  With an empty parameter grid
\* paramGrid[0] is undefined and reading p.g throws a TypeError.
getEstimate(e) ==
    IF e.nParams = 0 THEN Threw
    ELSE LET p == e.paramGrid[ArgMaxPrior(e, e.nParams)]
         IN  [ threw |-> FALSE, peakGain |-> p.g, peakFreq |-> p.f,
               bandwidth |-> p.b, truncation |-> p.d ]

\* getExpectedEstimate(): the posterior mean, the frequency averaged in log10.
getExpectedEstimate(e) ==
    [ threw      |-> FALSE,
      peakGain   |-> WeightedSum(e, [h \in 1..e.nParams |-> e.paramGrid[h].g]),
      peakFreq   |-> Pow10(WeightedSum(e, [h \in 1..e.nParams |-> Log10(e.paramGrid[h].f)])),
      bandwidth  |-> WeightedSum(e, [h \in 1..e.nParams |-> e.paramGrid[h].b]),
      truncation |-> WeightedSum(e, [h \in 1..e.nParams |-> e.paramGrid[h].d]) ]

\* evaluateCSF(freq, params) with params given.
evaluateCSF(freq, p) ==
    logParabolaCSF(freq, p.peakGain, p.peakFreq, p.bandwidth, p.truncation)

(***************************************************************************)
(* QCSFEngine: selectStimulus                                              *)
(***************************************************************************)

\* pCorr: the predicted probability of a correct response to stimulus s (1-based).
PCorr(e, s) ==
    WeightedSum(e, [h \in 1..e.nParams |-> e.pCorrectMatrix[h][s]])

\* One hypothesis' term of an entropy sum: -n log2 n for n = num / den,
\* skipped unless den > 1e-30 and n > 1e-30.
EntropyTerm(num, den) ==
    IF Gt(den, 0)
    THEN LET n == Div(num, den)
         IN  IF Gt(n, 0) THEN Sub(0, Mul(n, Log2(n))) ELSE 0
    ELSE 0

\* hC (correct = TRUE) or hI (correct = FALSE) over hypotheses 1..n.
RECURSIVE Entropy(_, _, _, _, _)
Entropy(e, s, n, den, correct) ==
    IF n = 0 THEN 0
    ELSE LET rest == Entropy(e, s, n - 1, den, correct)
             ph   == e.prior[n]
             pCH  == e.pCorrectMatrix[n][s]
             lik  == IF correct THEN pCH ELSE Sub(SCALE, pCH)
         IN  IF Lt(ph, 1) THEN rest
             ELSE Add(rest, EntropyTerm(Mul(ph, lik), den))

\* The raw expected entropy pCorr * hC + pInc * hI of stimulus s.
RawExpectedEntropy(e, s) ==
    LET pCorr == PCorr(e, s)
        pInc  == Sub(SCALE, pCorr)
        hC    == Entropy(e, s, e.nParams, pCorr, TRUE)
        hI    == Entropy(e, s, e.nParams, pInc, FALSE)
    IN  Add(Mul(pCorr, hC), Mul(pInc, hI))

\* exp(-0.5 * ((logContrast - predicted boundary) / sigma)^2)
BoundaryWeight(e, stim, pHat) ==
    LET predictedBoundaryLogC == Sub(0, evaluateCSF(stim.freq, pHat))
        boundaryDelta == Sub(stim.logContrast, predictedBoundaryLogC)
    IN  Exp(Mul(-500, Sq(Div(boundaryDelta, e.boundarySigmaLogC))))

MidFreqWeight(e, stim) ==
    IF Ge(stim.freq, 1000) /\ Le(stim.freq, 5000) THEN e.lowMidFreqBoost ELSE SCALE

\* ee[s], the weighted expected entropy the ranking uses.
ExpectedEntropy(e, s, pHat) ==
    Mul(Mul(RawExpectedEntropy(e, s), Add(SCALE, BoundaryWeight(e, e.stimGrid[s], pHat))),
        MidFreqWeight(e, e.stimGrid[s]))

ExpectedEntropies(e) ==
    LET pHat == getExpectedEstimate(e)
    IN  [s \in 1..e.nStim |-> ExpectedEntropy(e, s, pHat)]

\* The comparator (a, b) => a.e - b.e: negative, positive, or 0; a NaN
\* difference counts as 0.
SortsBefore(ee, i, j) ==
    \/ Lt(ee[i], ee[j])
    \/ (~Lt(ee[j], ee[i]) /\ i < j)

\* Array.prototype.sort is stable: sorted[k] (1-based k) is the stimulus
\* with exactly k - 1 stimuli sorting before it.
Sorted(ee) ==
    [k \in 1..Len(ee) |->
        CHOOSE i \in 1..Len(ee) :
            Cardinality({j \in 1..Len(ee) : j # i /\ SortsBefore(ee, j, i)}) = k - 1]

\* A variant of topN that draws from the whole grid.
TopN_wholeGrid(e) == e.nStim

\* topN: 5 during the first 8 trials, the single best afterwards.
TopN(e) == IF e.trialCount < 8 THEN 5 ELSE 1

\* selectStimulus() with Math.random() = r / SCALE.  sorted[idx] beyond the
\* array is undefined and reading chosen.i throws a TypeError.
\* The record selectStimulus returns for the stimulus at 1-based position i.
Selected(stim, i) ==
    [ threw       |-> FALSE,
      frequency   |-> stim.freq,
      contrast    |-> Pow10(stim.logContrast),
      logContrast |-> stim.logContrast,
      stimIndex   |-> i - 1 ]

\* chosen = sorted[idx] (0-based idx) and the record built from it.
Chosen(e, sorted, idx) ==
    IF idx + 1 > Len(sorted) THEN Threw
    ELSE Selected(e.stimGrid[sorted[idx + 1]], sorted[idx + 1])

selectStimulus(e, r) ==
    Chosen(e, Sorted(ExpectedEntropies(e)), (r * TopN(e)) \div SCALE)

(***************************************************************************)
(* QCSFEngine: derived metrics                                             *)
(***************************************************************************)

\* Number of trapezoid panels of computeAULCSF.
AULCSF_N == 500

\* Number of samples of getCSFCurve.
CURVE_N == 200

\* A variant of the term that adds the samples below 0 as well.
AreaTerm_signed(p, i, logMin, dLogF) ==
    LET f    == Pow10(Add(logMin, Mul(i * SCALE, dLogF)))
        logS == evaluateCSF(f, p)
        w    == IF i = 0 \/ i = AULCSF_N THEN 500 ELSE SCALE
    IN  Mul(Mul(logS, dLogF), w)

\* The contribution of sample i to the area: only samples with logS > 0 add.
AreaTerm(p, i, logMin, dLogF) ==
    LET f    == Pow10(Add(logMin, Mul(i * SCALE, dLogF)))
        logS == evaluateCSF(f, p)
        w    == IF i = 0 \/ i = AULCSF_N THEN 500 ELSE SCALE
    IN  IF Gt(logS, 0) THEN Mul(Mul(logS, dLogF), w) ELSE 0

\* The area accumulated over the samples lo..hi (split in halves to keep
\* the evaluation shallow; the sum is the same).
RECURSIVE AreaOver(_, _, _, _, _)
AreaOver(p, lo, hi, logMin, dLogF) ==
    IF lo > hi THEN 0
    ELSE IF lo = hi THEN AreaTerm(p, lo, logMin, dLogF)
    ELSE LET mid == (lo + hi) \div 2
         IN  Add(AreaOver(p, lo, mid, logMin, dLogF),
                 AreaOver(p, mid + 1, hi, logMin, dLogF))

\* computeAULCSF(params): trapezoid rule over log10 f in [log10 0.5, log10 36].
computeAULCSF(p) ==
    LET logMin == Log10(500)
        logMax == Log10(36000)
        dLogF  == Div(Sub(logMax, logMin), AULCSF_N * SCALE)
    IN  AreaOver(p, 0, AULCSF_N, logMin, dLogF)

\* getCSFCurve(params): CURVE_N samples, log-spaced over 10^-0.3 .. 10^1.7.
getCSFCurve(p) ==
    [k \in 1..CURVE_N |->
        LET f == Pow10(Add(-300, Div(Mul((k - 1) * SCALE, 2000), (CURVE_N - 1) * SCALE)))
        IN  [freq |-> f, logS |-> evaluateCSF(f, p)]]

(***************************************************************************)
(* results.js: computeResult                                               *)
(***************************************************************************)

\* A variant of the ranking whose thresholds are inclusive.
Rank_inclusive(aulcsf) ==
    IF Ge(aulcsf, 2000) THEN "SUPERIOR"
    ELSE IF Ge(aulcsf, 1600) THEN "ABOVE AVERAGE"
    ELSE IF Ge(aulcsf, 1200) THEN "NORMAL"
    ELSE IF Ge(aulcsf, 800) THEN "BELOW AVERAGE"
    ELSE "IMPAIRED"

Rank(aulcsf) ==
    IF Gt(aulcsf, 2000) THEN "SUPERIOR"
    ELSE IF Gt(aulcsf, 1600) THEN "ABOVE AVERAGE"
    ELSE IF Gt(aulcsf, 1200) THEN "NORMAL"
    ELSE IF Gt(aulcsf, 800) THEN "BELOW AVERAGE"
    ELSE "IMPAIRED"

\* The record computeResult returns, from params and the area under them.
ResultOf(params, aulcsf, curve) ==
    [ aulcsf |-> aulcsf, rank |-> Rank(aulcsf), params |-> params, curve |-> curve ]

ResultFor(e, params) == ResultOf(params, computeAULCSF(params), getCSFCurve(params))

computeResult(e) == ResultFor(e, getExpectedEstimate(e))

(***************************************************************************)
(* src/unnamed/part_001 (results with display parameters)                  *)
(***************************************************************************)

\* Number of steps of the cutoff search.
CUTOFF_N == 500

\* The samples estimateCutoffCpd looks at: frequency i of CUTOFF_N + 1,
\* log-spaced over 0.5 .. 60 cpd, and the CSF there.
CutoffSamples(p) ==
    [i \in 0..CUTOFF_N |->
        LET f == IF i = 0 THEN 500
                 ELSE Pow10(Add(Log10(500),
                                Div(Mul(Log10(Div(60000, 500)), i * SCALE),
                                    CUTOFF_N * SCALE)))
        IN  [f |-> f, v |-> evaluateCSF(f, p)]]

\* The least element of a non-empty set of numbers.
Least(S) == CHOOSE i \in S : \A j \in S : i <= j

\* The steps at which the samples go from >= 0 to < 0.
DownCrossings(smp) ==
    {i \in 1..CUTOFF_N : Ge(smp[i - 1].v, 0) /\ Lt(smp[i].v, 0)}

\* prevF + frac * (f - prevF) at step i
CutoffAt(smp, i) ==
    Add(smp[i - 1].f,
        Mul(Div(Sub(0, smp[i - 1].v), Sub(smp[i].v, smp[i - 1].v)),
            Sub(smp[i].f, smp[i - 1].f)))

CutoffFrom(smp) ==
    IF Lt(smp[0].v, 0) THEN 500
    ELSE IF DownCrossings(smp) = {} THEN 60000
    ELSE CutoffAt(smp, Least(DownCrossings(smp)))

\* estimateCutoffCpd(engine, params)
estimateCutoffCpd(p) == CutoffFrom(CutoffSamples(p))

\* The number of trials of the history shown at 0.5 .. 5 cpd; a record whose
\* stimIndex is outside the grid has no frequency and is filtered out.
lowBandCount(e) ==
    Cardinality({k \in DOMAIN e.history :
                    /\ e.history[k].stimIndex >= 0
                    /\ e.history[k].stimIndex < e.nStim
                    /\ Ge(e.stimGrid[e.history[k].stimIndex + 1].freq, 500)
                    /\ Le(e.stimGrid[e.history[k].stimIndex + 1].freq, 5000)})

\* The bias applied when low-frequency sampling is sparse.
SparseBias(e, p) ==
    IF lowBandCount(e) < 2
    THEN [p EXCEPT !.peakFreq = MathMin(p.peakFreq, 4500),
                   !.bandwidth = MathMax(p.bandwidth, 1350),
                   !.truncation = MathMax(p.truncation, 1800)]
    ELSE p

\* The global plausibility guards.
GlobalGuards(p) ==
    [p EXCEPT !.peakFreq = MathMin(p.peakFreq, 10000),
              !.bandwidth = MathMax(p.bandwidth, 1150),
              !.truncation = MathMax(p.truncation, 1400)]

\* A variant of CutoffShrink that lets go of the bandwidth limit's side: it
\* lowers the bandwidth at every iteration.
RECURSIVE CutoffShrink_widening(_, _)
CutoffShrink_widening(p, n) ==
    IF n = 0 \/ Le(estimateCutoffCpd(p), 42000) THEN p
    ELSE CutoffShrink_widening([p EXCEPT !.peakFreq = MathMax(2200, Mul(p.peakFreq, 900)),
                                         !.bandwidth = MathMin(2800, Sub(p.bandwidth, 120)),
                                         !.truncation = MathMin(3200, Add(p.truncation, 150))],
                               n - 1)

\* The loop that shrinks the curve while its cutoff lies beyond 42 cpd, with
\* n iterations left.
RECURSIVE CutoffShrink(_, _)
CutoffShrink(p, n) ==
    IF n = 0 \/ Le(estimateCutoffCpd(p), 42000) THEN p
    ELSE CutoffShrink([p EXCEPT !.peakFreq = MathMax(2200, Mul(p.peakFreq, 900)),
                                !.bandwidth = MathMin(2800, Add(p.bandwidth, 120)),
                                !.truncation = MathMin(3200, Add(p.truncation, 150))],
                      n - 1)

\* buildDisplayParams(engine, baseParams)
buildDisplayParams(e, baseParams) == CutoffShrink(GlobalGuards(SparseBias(e, baseParams)), 5)

\* computeResult(engine) of this file.
computeDisplayResult(e) == ResultFor(e, buildDisplayParams(e, getExpectedEstimate(e)))

(***************************************************************************)
(* State                                                                   *)
(***************************************************************************)

VARIABLES
    engine,             \* the QCSFEngine instance in use, or NoEngine
    calls,              \* the engine calls made by the last step, in order
    warnings,           \* the warnings the engine has surfaced, oldest first
    mode,               \* the controller's stimulus mode, or NoMode
    currentStim,        \* the controller's current stimulus, or NoStim
    testComplete, testStarted, inTutorial, inPreTest,
    tutStep,            \* index of the tutorial step shown, 0-based
    sinceInput,         \* performance.now() - lastInputTime, capped at DEBOUNCE_MS
    lastSelected,       \* stimIndex the engine in use last returned to the controller, -1 if none
    selectedSinceUpdate,\* whether the controller has made a selection on it since its last update
    instances,          \* QCSFEngine objects side by side, in order of construction
    heap,               \* the arrays the objects of instances refer to, by address
    calStep,            \* the calibration step shown
    dv, du,             \* the distance field (NaN if it holds no number) and its unit
    ss,                 \* the card-size slider, in px
    cal,                \* window._cal, or NoCal before the first startTest
    data,               \* whether the mode holds its templates (generate has succeeded)
    shown,              \* stimIndex of the stimulus drawn on the canvas, -1 if none
    fftN,               \* side N of the image held in re and im, 0 before the first
    re, im,             \* the buffers handed to fft2d, row by row
    input,              \* the image the buffers were filled from
    passes,             \* the invert flags of the fft2d calls made on the buffers
    mass,               \* the posterior of the long-run engine, one double per hypothesis
    massTrials,         \* the number of updates made on it
    shownCode,          \* the pairing code on the display page, <<>> when none
    qrId,               \* the peer id in the QR code's URL, <<>> when none
    activePeerId,       \* createHost: activePeer.id, <<>> without a host
    peerOpen,           \* the broker has registered the active peer under its id
    retries,            \* the number of unavailable-id retries of this host
    conns,              \* the data connections the host's peer was offered, in order
    conn,               \* createHost: conn, an index into conns, 0 for null
    activeConn,         \* initSync: activeConn, an index into conns, 0 for null
    opened,             \* the connections that opened, in the order they did
    lastSend,           \* what the last send() did with its message
    clock,              \* time since the display's handoffConn opened, in 100 ms, -1 before
    wire,               \* arrival times of the handoff messages in flight, in order
    resent,             \* whether the display's 500 ms timer has run
    handoffConnOpen,    \* handoffConn.open on the display
    closeAt,            \* when the close of the connection reaches the display, -1 if none
    tempHost,           \* the remote page's tempHost: "host" or "null"
    teardowns,          \* due times of the remote page's pending 400 ms timeouts
    onHandoffRuns,      \* the number of onHandoff calls of the temporary host
    redirects,          \* the number of assignments to location.href
    nullDestroys,       \* the number of tempHost.destroy() calls made on null
    unloaded,           \* the remote page has been replaced by tablet.html
    adjusted,           \* buildDisplayParams: adjusted, or NoParams outside a call
    iterations          \* buildDisplayParams: the loop iterations run in the call

engineVars == <<engine, calls, warnings>>
ctlVars == <<mode, currentStim, testComplete, testStarted, inTutorial, inPreTest,
             tutStep, sinceInput, lastSelected, selectedSinceUpdate>>
instanceVars == <<instances, heap>>
calVars == <<calStep, dv, du, ss, cal>>
displayVars == <<data, shown>>
fftVars == <<fftN, re, im, input, passes>>
massVars == <<mass, massTrials>>
hostVars == <<shownCode, qrId, activePeerId, peerOpen, retries, conns, conn, activeConn, opened, lastSend>>
handoffVars == <<clock, wire, resent, handoffConnOpen, closeAt, tempHost, teardowns, onHandoffRuns, redirects, nullDestroys, unloaded>>
shrinkVars == <<adjusted, iterations>>
vars == <<engine, calls, warnings, mode, currentStim, testComplete, testStarted,
          inTutorial, inPreTest, tutStep, sinceInput, lastSelected,
          selectedSinceUpdate, instances, heap, calStep, dv, du, ss, cal, data, shown,
          fftN, re, im, input, passes,
          mass, massTrials,
          shownCode, qrId, activePeerId, peerOpen, retries, conns, conn, activeConn, opened, lastSend,
          clock, wire, resent, handoffConnOpen, closeAt, tempHost, teardowns, onHandoffRuns, redirects, nullDestroys, unloaded,
          adjusted, iterations>>

NoEngine == [none |-> TRUE]
NoMode == [none |-> TRUE]
NoStim == [none |-> TRUE]
NoCal == [none |-> TRUE]

HasEngine == engine # NoEngine

LastCall == IF calls = <<>> THEN [op |-> "none"] ELSE calls[Len(calls)]

FirstOp(cs) == IF cs = <<>> THEN "none" ELSE cs[1].op

\* Width of the reference card, in mm.
CARD_W_MM == 85600

\* Tenths of a millimetre per unit of the distance field; a unit the table
\* does not hold (the select shows none of its options) has no factor.
UnitFactor(unit) ==
    IF unit = "ft" THEN 3048
    ELSE IF unit = "m" THEN 10000
    ELSE IF unit = "cm" THEN 100
    ELSE IF unit = "in" THEN 254
    ELSE NaN

\* distToMm(): the distance field times the factor of its unit.
distToMm(value, unit) ==
    IF IsNaN(value) \/ IsNaN(UnitFactor(unit)) THEN NaN
    ELSE (value * UnitFactor(unit)) \div 10

\* The posterior followed through the range of the doubles.  A positive
\* double is written [m, x] for m / SCALE * 10^x with SCALE <= m < 10 * SCALE;
\* 0 is [m |-> 0, x |-> 0].  The smallest positive double is about 5 * 10^-324.
MinExponent == -324

Zero == [m |-> 0, x |-> 0]

\* The double nearest to n / SCALE * 10^x, n >= 0: 0 below the smallest
\* positive double.
RECURSIVE Rounded(_, _)
Rounded(n, x) ==
    IF n = 0 THEN Zero
    ELSE IF n >= 10 * SCALE THEN Rounded(n \div 10, x + 1)
    ELSE IF n < SCALE THEN Rounded(n * 10, x - 1)
    ELSE IF x < MinExponent \/ (x = MinExponent /\ n < 5 * SCALE) THEN Zero
    ELSE [m |-> n, x |-> x]

\* 10^d for the differences of exponents that still matter in a sum.
TenTo(d) == CASE d = 0 -> 1 [] d = 1 -> 10 [] d = 2 -> 100 [] d = 3 -> 1000

\* a * p for a double a and a probability p in units.
Times(a, p) == Rounded(a.m * p, a.x - 3)

\* a + b for doubles a and b.
Plus(a, b) ==
    IF a.m = 0 THEN b
    ELSE IF b.m = 0 THEN a
    ELSE IF a.x >= b.x
         THEN IF a.x - b.x > 3 THEN a
              ELSE Rounded(a.m + b.m \div TenTo(a.x - b.x), a.x)
    ELSE IF b.x - a.x > 3 THEN b
         ELSE Rounded(b.m + a.m \div TenTo(b.x - a.x), b.x)

\* a / t for doubles a and t, t > 0.
Over(a, t) == Rounded((a.m * SCALE) \div t.m, a.x - t.x)

\* total of the loop of update, over the first n hypotheses.
RECURSIVE TotalMass(_, _)
TotalMass(m, n) == IF n = 0 THEN Zero ELSE Plus(TotalMass(m, n - 1), m[n])

\* The engine whose posterior is followed over a long run of updates.
LongRunEngine == NewEngine(DEFAULTS)

\* update(stimIndex, detected) on the posterior prior of engine e.
updateMass(e, prior, stimIndex, detected) ==
    LET m     == [h \in 1..e.nParams |-> Times(prior[h], PObs(e, h, stimIndex, detected))]
        total == TotalMass(m, e.nParams)
    IN  IF total.m > 0 THEN [h \in 1..e.nParams |-> Over(m[h], total)] ELSE m

\* The uniform prior of the constructor.
MassInit ==
    /\ mass = [h \in 1..LongRunEngine.nParams |->
                   Rounded(SCALE \div LongRunEngine.nParams, 0)]
    /\ massTrials = 0

\* Before displayGenerateCode the page has no host and shows no code.
HostInit ==
    /\ shownCode = <<>>
    /\ qrId = <<>>
    /\ activePeerId = <<>>
    /\ peerOpen = FALSE
    /\ retries = 0
    /\ conns = <<>>
    /\ conn = 0
    /\ activeConn = 0
    /\ opened = <<>>
    /\ lastSend = "none"

\* The remote page before startRemotePairing: let tempHost = null.
HandoffInit ==
    /\ clock = -1
    /\ wire = <<>>
    /\ resent = FALSE
    /\ handoffConnOpen = FALSE
    /\ closeAt = -1
    /\ tempHost = "null"
    /\ teardowns = <<>>
    /\ onHandoffRuns = 0
    /\ redirects = 0
    /\ nullDestroys = 0
    /\ unloaded = FALSE

NoParams == [none |-> TRUE]

\* No call of buildDisplayParams is under way.
ShrinkInit ==
    /\ adjusted = NoParams
    /\ iterations = 0

\* No image is loaded before the first template is made.
FftInit ==
    /\ fftN = 0
    /\ re = <<>>
    /\ im = <<>>
    /\ input = <<>>
    /\ passes = <<>>

\* The calibration page as it loads: step 0, a distance of 20 ft, a card of
\* 300 px, no calibration taken yet.
CalInit ==
    /\ calStep = 0
    /\ dv = 20 * SCALE
    /\ du = "ft"
    /\ ss = 300 * SCALE
    /\ cal = NoCal

Init ==
    /\ engine = NoEngine
    /\ calls = <<>>
    /\ warnings = <<>>
    /\ mode = NoMode
    /\ currentStim = NoStim
    /\ testComplete = FALSE
    /\ testStarted = FALSE
    /\ inTutorial = FALSE
    /\ inPreTest = FALSE
    /\ tutStep = 0
    /\ sinceInput = 0
    /\ lastSelected = -1
    /\ selectedSinceUpdate = FALSE
    /\ instances = <<>>
    /\ heap = <<>>
    /\ CalInit
    /\ data = FALSE
    /\ shown = -1
    /\ FftInit
    /\ MassInit
    /\ HostInit
    /\ HandoffInit
    /\ ShrinkInit

(***************************************************************************)
(* The engine driven through its public operations                         *)
(***************************************************************************)

\* Option sets handed to the constructor: the defaults, the controller's
\* options, an empty parameter axis, a parameter grid the cutoff pruning
\* empties, an empty stimulus axis, and a grid of fewer than five stimuli.
Configs ==
    { DEFAULTS,
      [DEFAULTS EXCEPT !.numAFC = 4],
      [DEFAULTS EXCEPT !.peakGainValues = <<>>],
      [DEFAULTS EXCEPT !.peakFreqValues = <<18000>>, !.bandwidthValues = <<800>>,
                       !.truncationValues = <<1000>>],
      [DEFAULTS EXCEPT !.stimFreqs = <<>>],
      [DEFAULTS EXCEPT !.stimFreqs = <<4000>>],
      [DEFAULTS EXCEPT !.peakGainValues = <<2000>>, !.peakFreqValues = <<4000>>],
      [DEFAULTS EXCEPT !.peakGainValues = <<200, 2000>>, !.peakFreqValues = <<18000>>,
                       !.bandwidthValues = <<800>>, !.truncationValues = <<1000>>] }

\* Values of Math.random(), in units.
Randoms == {0, 999}

\* Most updates made on one instance.
MaxUpdates == 2

\* Stimulus indices handed to update: the first and the last of the grid,
\* and the first beyond it.
UpdateIndices(e) == IF e = NoEngine THEN {} ELSE {0, e.nStim - 1, e.nStim}

Construct(cfg) ==
    /\ engine' = NewEngine(cfg)
    /\ calls' = <<[op |-> "new", cfg |-> cfg]>>
    /\ UNCHANGED <<warnings, ctlVars>>
    /\ UNCHANGED instanceVars
    /\ UNCHANGED calVars
    /\ UNCHANGED fftVars
    /\ UNCHANGED massVars
    /\ UNCHANGED hostVars
    /\ UNCHANGED handoffVars
    /\ UNCHANGED shrinkVars
    /\ UNCHANGED displayVars

\* A variant of SelectStimulus that counts the selection as a trial.
SelectStimulus_countsTrial(r) ==
    /\ HasEngine
    /\ calls' = <<[op |-> "selectStimulus", ret |-> selectStimulus(engine, r)]>>
    /\ engine' = [engine EXCEPT !.trialCount = engine.trialCount + 1]
    /\ UNCHANGED <<warnings, ctlVars>>
    /\ UNCHANGED instanceVars
    /\ UNCHANGED calVars
    /\ UNCHANGED fftVars
    /\ UNCHANGED massVars
    /\ UNCHANGED hostVars
    /\ UNCHANGED handoffVars
    /\ UNCHANGED shrinkVars
    /\ UNCHANGED displayVars

SelectStimulus(r) ==
    /\ HasEngine
    /\ calls' = <<[op |-> "selectStimulus", ret |-> selectStimulus(engine, r)]>>
    /\ UNCHANGED <<engine, warnings, ctlVars>>
    /\ UNCHANGED instanceVars
    /\ UNCHANGED calVars
    /\ UNCHANGED fftVars
    /\ UNCHANGED massVars
    /\ UNCHANGED hostVars
    /\ UNCHANGED handoffVars
    /\ UNCHANGED shrinkVars
    /\ UNCHANGED displayVars

Update(stimIndex, detected) ==
    /\ HasEngine
    /\ engine.trialCount < MaxUpdates
    /\ engine' = update(engine, stimIndex, detected)
    /\ calls' = <<[op |-> "update", stimIndex |-> stimIndex, detected |-> detected,
                   total |-> UpdateTotal(engine, stimIndex, detected)]>>
    /\ UNCHANGED <<warnings, ctlVars>>
    /\ UNCHANGED instanceVars
    /\ UNCHANGED calVars
    /\ UNCHANGED fftVars
    /\ UNCHANGED massVars
    /\ UNCHANGED hostVars
    /\ UNCHANGED handoffVars
    /\ UNCHANGED shrinkVars
    /\ UNCHANGED displayVars

GetEstimate ==
    /\ HasEngine
    /\ calls' = <<[op |-> "getEstimate", ret |-> getEstimate(engine)]>>
    /\ UNCHANGED <<engine, warnings, ctlVars>>
    /\ UNCHANGED instanceVars
    /\ UNCHANGED calVars
    /\ UNCHANGED fftVars
    /\ UNCHANGED massVars
    /\ UNCHANGED hostVars
    /\ UNCHANGED handoffVars
    /\ UNCHANGED shrinkVars
    /\ UNCHANGED displayVars

GetExpectedEstimate ==
    /\ HasEngine
    /\ calls' = <<[op |-> "getExpectedEstimate", ret |-> getExpectedEstimate(engine)]>>
    /\ UNCHANGED <<engine, warnings, ctlVars>>
    /\ UNCHANGED instanceVars
    /\ UNCHANGED calVars
    /\ UNCHANGED fftVars
    /\ UNCHANGED massVars
    /\ UNCHANGED hostVars
    /\ UNCHANGED handoffVars
    /\ UNCHANGED shrinkVars
    /\ UNCHANGED displayVars

\* evaluateCSF(freq) with params defaulted to getExpectedEstimate().
EvaluateCSF(freq) ==
    /\ HasEngine
    /\ calls' = <<[op |-> "evaluateCSF",
                   ret |-> evaluateCSF(freq, getExpectedEstimate(engine))]>>
    /\ UNCHANGED <<engine, warnings, ctlVars>>
    /\ UNCHANGED instanceVars
    /\ UNCHANGED calVars
    /\ UNCHANGED fftVars
    /\ UNCHANGED massVars
    /\ UNCHANGED hostVars
    /\ UNCHANGED handoffVars
    /\ UNCHANGED shrinkVars
    /\ UNCHANGED displayVars

\* computeAULCSF() and getCSFCurve() with params defaulted; their values are
\* computed where the controller uses them, in finish().
ComputeAULCSF ==
    /\ HasEngine
    /\ calls' = <<[op |-> "computeAULCSF"]>>
    /\ UNCHANGED <<engine, warnings, ctlVars>>
    /\ UNCHANGED instanceVars
    /\ UNCHANGED calVars
    /\ UNCHANGED fftVars
    /\ UNCHANGED massVars
    /\ UNCHANGED hostVars
    /\ UNCHANGED handoffVars
    /\ UNCHANGED shrinkVars
    /\ UNCHANGED displayVars

GetCSFCurve ==
    /\ HasEngine
    /\ calls' = <<[op |-> "getCSFCurve"]>>
    /\ UNCHANGED <<engine, warnings, ctlVars>>
    /\ UNCHANGED instanceVars
    /\ UNCHANGED calVars
    /\ UNCHANGED fftVars
    /\ UNCHANGED massVars
    /\ UNCHANGED hostVars
    /\ UNCHANGED handoffVars
    /\ UNCHANGED shrinkVars
    /\ UNCHANGED displayVars

Next ==
    \/ \E cfg \in Configs : Construct(cfg)
    \/ \E r \in Randoms : SelectStimulus(r)
    \/ \E d \in BOOLEAN : \E s \in UpdateIndices(engine) : Update(s, d)
    \/ GetEstimate
    \/ GetExpectedEstimate
    \/ \E freq \in {4000} : EvaluateCSF(freq)
    \/ ComputeAULCSF
    \/ GetCSFCurve

Spec == Init /\ [][Next]_vars

(***************************************************************************)
(* stimulus-modes.js: the stimulus modes                                   *)
(***************************************************************************)

ORIENTATIONS_4 == <<0, 45, 90, 135>>

\* src/unnamed/part_000 (tumbling-e.js)
E_ORIENTATIONS == <<"right", "down", "left", "up">>

\* sloan-filter.js
SLOAN_LETTERS == <<"C", "D", "H", "K", "N", "O", "R", "S", "V", "Z">>

\* String.prototype.toLowerCase and toUpperCase on the strings the modes
\* handle.  A string that has no Sloan letter in it stands for its own other
\* case: it equals no Sloan letter before or after.
LowerCase ==
    [C |-> "c", D |-> "d", H |-> "h", K |-> "k", N |-> "n",
     O |-> "o", R |-> "r", S |-> "s", V |-> "v", Z |-> "z"]

UpperCase ==
    [c |-> "C", d |-> "D", h |-> "H", k |-> "K", n |-> "N",
     o |-> "O", r |-> "R", s |-> "S", v |-> "V", z |-> "Z"]

toLowerCase(str) == IF str \in DOMAIN LowerCase THEN LowerCase[str] ELSE str

toUpperCase(str) == IF str \in DOMAIN UpperCase THEN UpperCase[str] ELSE str

\* createGaborMode(): the state of the mode object is its currentAngle.
createGaborMode ==
    [ id |-> "gabor", numAFC |-> 4, psychometricSlope |-> 3500,
      labels |-> <<"↑", "→", "↗", "↖">>,
      keys |-> <<"up", "right", "upright", "upleft">>,
      currentAngle |-> 0 ]

\* createTumblingEMode(): the state of the mode object is its currentIdx
\* (the templates are taken as generated).
createTumblingEMode ==
    [ id |-> "tumblingE", numAFC |-> 4, psychometricSlope |-> 3500,
      labels |-> <<"→", "↓", "←", "↑">>,
      keys |-> <<"right", "down", "left", "up">>,
      currentIdx |-> 0 ]

createSloanMode ==
    [ id |-> "sloan", numAFC |-> 10, psychometricSlope |-> 4050,
      labels |-> SLOAN_LETTERS,
      keys |-> [i \in DOMAIN SLOAN_LETTERS |-> toLowerCase(SLOAN_LETTERS[i])],
      currentIdx |-> 0 ]

MODE_IDS == <<"gabor", "tumblingE", "sloan">>

\* createMode(mode), for the mode ids of MODE_IDS.
createMode(modeId) ==
    IF modeId = "gabor" THEN createGaborMode
    ELSE IF modeId = "tumblingE" THEN createTumblingEMode
    ELSE createSloanMode

\* new Set(mode.keys)
KeySet(m) == {m.keys[i] : i \in DOMAIN m.keys}

\* render(): the mode after drawing the alternative that
\* Math.random() = a / SCALE picks.
render(m, a) ==
    IF m.id = "gabor"
    THEN [m EXCEPT !.currentAngle = ORIENTATIONS_4[((a * 4) \div SCALE) + 1]]
    ELSE IF m.id = "tumblingE"
    THEN [m EXCEPT !.currentIdx = (a * 4) \div SCALE]
    ELSE [m EXCEPT !.currentIdx = (a * 10) \div SCALE]

\* What render() returns, read from the mode it leaves: the angle in degrees
\* (a number) for the Gabor, the direction for the tumbling E, the letter for
\* Sloan.
rendered(m) ==
    IF m.id = "gabor" THEN m.currentAngle
    ELSE IF m.id = "tumblingE" THEN E_ORIENTATIONS[m.currentIdx + 1]
    ELSE SLOAN_LETTERS[m.currentIdx + 1]

\* ANGLE_MAP of createGaborMode: the key that stands for an angle.
ANGLE_MAP(angle) ==
    IF angle = 0 THEN "up" ELSE IF angle = 90 THEN "right"
    ELSE IF angle = 45 THEN "upright" ELSE "upleft"

\* A variant of checkAnswer that compares Sloan letters without folding case.
checkAnswer_caseSensitive(m, response) ==
    IF m.id = "gabor"
    THEN LET map == [up |-> 0, right |-> 90, upright |-> 45, upleft |-> 135]
         IN  response \in DOMAIN map /\ map[response] = m.currentAngle
    ELSE IF m.id = "tumblingE"
    THEN response = E_ORIENTATIONS[m.currentIdx + 1]
    ELSE response = SLOAN_LETTERS[m.currentIdx + 1]

\* checkAnswer(response), response a string.  Gabor: map[response] ===
\* currentAngle, where a response that is not in the map reads undefined and
\* compares unequal.
checkAnswer(m, response) ==
    IF m.id = "gabor"
    THEN LET map == [up |-> 0, right |-> 90, upright |-> 45, upleft |-> 135]
         IN  response \in DOMAIN map /\ map[response] = m.currentAngle
    ELSE IF m.id = "tumblingE"
    THEN response = E_ORIENTATIONS[m.currentIdx + 1]
    ELSE toUpperCase(response) = SLOAN_LETTERS[m.currentIdx + 1]

(***************************************************************************)
(* app.js: the display controller (v7)                                     *)
(***************************************************************************)

MAX_TRIALS == 50

DEBOUNCE_MS == 250

\* The keys of the tutorial steps TUT[0..6].
TUT == <<"12oclock", "1oclock", "2oclock", "3oclock", "4oclock", "5oclock", "none">>

\* finish() computes the result; computeResult throws on a null engine and
\* the catch substitutes the ERROR result.
finishResult(e) ==
    IF e = NoEngine
    THEN [aulcsf |-> 0, rank |-> "ERROR", params |-> NoEngine, curve |-> <<>>]
    ELSE computeResult(e)

\* A variant of the crossing test that takes the rising side of the curve.
crossesDown_rising(curve, i) ==
    Lt(curve[i - 1].logS, 0) /\ Ge(curve[i].logS, 0)

\* curveData[i - 1].logS >= 0 && curveData[i].logS < 0
crossesDown(curve, i) ==
    Ge(curve[i - 1].logS, 0) /\ Lt(curve[i].logS, 0)

\* The cutoff interpolated, on log10 f, between samples i - 1 and i.
snellenCutoff(curve, i) ==
    MathMin(MAX_HUMAN_CUTOFF_CPD,
            Pow10(Add(Log10(curve[i - 1].freq),
                      Mul(Div(Sub(0, curve[i - 1].logS),
                              Sub(curve[i].logS, curve[i - 1].logS)),
                          Sub(Log10(curve[i].freq), Log10(curve[i - 1].freq))))))

\* Math.round of a positive number, in whole units.
MathRound(x) == IF IsNaN(x) THEN NaN ELSE (x + 500) \div SCALE

\* The Snellen prediction of finish(): the loop stops at the first crossing;
\* without one the string stays '--'.
snellenAt(curve, crossings) ==
    IF crossings = {} THEN [reported |-> FALSE]
    ELSE [reported |-> TRUE,
          cutoff |-> snellenCutoff(curve, Least(crossings)),
          denominator |-> MathRound(Div(600 * SCALE,
                                        snellenCutoff(curve, Least(crossings))))]

snellen(curve) == snellenAt(curve, {i \in 2..Len(curve) : crossesDown(curve, i)})

\* The landmark table of finish(): frequency in cpd, required sensitivity.
LANDMARKS ==
    << [name |-> "Car (clear)",           freq |-> 2 * SCALE,  sens |-> 2],
       [name |-> "Car (fog)",             freq |-> 2 * SCALE,  sens |-> 20],
       [name |-> "Pedestrian (day)",      freq |-> 6 * SCALE,  sens |-> 2],
       [name |-> "Pedestrian (dusk)",     freq |-> 6 * SCALE,  sens |-> 33],
       [name |-> "Exit sign (day)",       freq |-> 10 * SCALE, sens |-> 2],
       [name |-> "Exit sign (night)",     freq |-> 10 * SCALE, sens |-> 33],
       [name |-> "Golf ball on grass",    freq |-> 8 * SCALE,  sens |-> 2],
       [name |-> "Golf ball, cloudy sky", freq |-> 8 * SCALE,  sens |-> 10],
       [name |-> "Plate (day)",           freq |-> 26 * SCALE, sens |-> 2],
       [name |-> "Plate (night)",         freq |-> 26 * SCALE, sens |-> 25] >>

\* yourSens = Math.pow(10, engine.evaluateCSF(lm.freq, result.params))
yourSens(lm, params) == Pow10(evaluateCSF(lm.freq, params))

\* A variant of the landmark entry that passes on the rounded sensitivity.
landmarkEntry_roundedPass(lm, sens) ==
    [name |-> lm.name, freq |-> lm.freq, needed |-> lm.sens,
     yours |-> MathRound(sens), pass |-> Ge(MathRound(sens), lm.sens)]

\* The entry pushed for a landmark whose sensitivity is sens: pass compares
\* the sensitivity itself, yours is its rounding.
landmarkEntry(lm, sens) ==
    [name |-> lm.name, freq |-> lm.freq, needed |-> lm.sens,
     yours |-> MathRound(sens), pass |-> Ge(sens, lm.sens * SCALE)]

lmResults(params) ==
    [i \in DOMAIN LANDMARKS |-> landmarkEntry(LANDMARKS[i], yourSens(LANDMARKS[i], params))]

\* lmResults.filter(l => l.pass).length
passCount(lms) == Cardinality({i \in DOMAIN lms : lms[i].pass})

\* The message with the landmarks lms.
resultsWith(result, lms) ==
    [op |-> "tx", type |-> "results", score |-> result.aulcsf,
     rank |-> result.rank, snellen |-> snellen(result.curve),
     landmarks |-> lms, passCount |-> passCount(lms), totalLandmarks |-> Len(lms),
     csfParams |-> result.params]

\* What finish() does with the result: the landmarks read engine.evaluateCSF,
\* so on a null engine the handler ends there with a TypeError; otherwise
\* the results message goes out.
resultsMessage(e, result) ==
    IF e = NoEngine THEN <<>>
    ELSE <<resultsWith(result, lmResults(result.params))>>

finishWith(e, result) ==
    <<[op |-> "computeResult", ret |-> result]>> \o resultsMessage(e, result)

finishCalls(e) == finishWith(e, finishResult(e))

\* The clamps nextTrial applies to the stimulus it got.
clampStim(stim) ==
    LET c  == stim.contrast
        c1 == IF Le(c, 0) \/ Gt(c, SCALE) \/ IsNaN(c)
              THEN MathMax(1, MathMin(SCALE, IF c = 0 \/ IsNaN(c) THEN 500 ELSE c))
              ELSE c
        f  == stim.frequency
        f1 == IF Le(f, 0) \/ IsNaN(f) THEN 4000 ELSE f
    IN  [stim EXCEPT !.contrast = c1, !.frequency = f1]

\* A variant of the update argument that always names the first stimulus.
updateArg_first(stim) == 0

\* The stimulus index handleInput hands to engine.update.
updateArg(stim) == stim.stimIndex

\* A variant of the budget test that never ends the test.
budgetReached_never(e) == FALSE

\* engine.trialCount >= MAX_TRIALS
budgetReached(e) == e.trialCount >= MAX_TRIALS

\* engine.selectStimulus() as nextTrial calls it: a null engine throws.
trySelect(e, r) == IF e = NoEngine THEN Threw ELSE selectStimulus(e, r)

\* The engine call that made, if any.
selectCalls(e, sel) ==
    IF e = NoEngine THEN <<>> ELSE <<[op |-> "selectStimulus", ret |-> sel]>>

\* Whether mode.render throws: the filtered modes read data.templates, which
\* is a TypeError while data is null; the Gabor mode holds no data.  The
\* random orientation or letter is assigned before that.
renderThrows(m, prepared) == m # NoMode /\ m.id # "gabor" /\ ~prepared

\* nextTrial() on engine e, after the calls pre of the same handler, with
\* Math.random() = r / SCALE in selectStimulus and a / SCALE in render;
\* selected0 is selectedSinceUpdate as the handler left it so far.  A throw
\* of selectStimulus (also on a null engine) ends in finish().
nextTrialWith(e, pre, selected0, sel, a) ==
    IF sel.threw
    THEN /\ testComplete' = TRUE
         /\ calls' = pre \o selectCalls(e, sel) \o finishCalls(e)
         /\ selectedSinceUpdate' = selected0
         /\ UNCHANGED <<currentStim, mode, lastSelected, shown>>
    ELSE /\ currentStim' = clampStim(sel)
         /\ mode' = IF mode = NoMode THEN mode ELSE render(mode, a)
         /\ shown' = IF renderThrows(mode, data) THEN shown ELSE sel.stimIndex
         /\ calls' = pre \o selectCalls(e, sel)
         /\ lastSelected' = sel.stimIndex
         /\ selectedSinceUpdate' = TRUE
         /\ UNCHANGED testComplete

nextTrial(e, pre, selected0, r, a) ==
    nextTrialWith(e, pre, selected0, trySelect(e, r), a)

\* { numAFC: mode.numAFC, psychometricSlope: mode.psychometricSlope } over DEFAULTS
modeOptions(m) ==
    [DEFAULTS EXCEPT !.numAFC = m.numAFC, !.psychometricSlope = m.psychometricSlope]

\* window.startTest, also reached by the phone's nav message.
StartTest ==
    /\ mode' = createMode("gabor")
    /\ engine' = NewEngine(modeOptions(createMode("gabor")))
    /\ calls' = <<[op |-> "createMode", id |-> "gabor"],
                  [op |-> "new", cfg |-> modeOptions(createMode("gabor"))]>>
    /\ testComplete' = FALSE
    /\ testStarted' = FALSE
    /\ inTutorial' = TRUE
    /\ currentStim' = NoStim
    /\ tutStep' = 0
    /\ lastSelected' = -1
    /\ selectedSinceUpdate' = FALSE
    /\ UNCHANGED <<warnings, inPreTest, sinceInput>>
    /\ UNCHANGED instanceVars
    /\ cal' = [pxPerMm |-> Div(ss, CARD_W_MM), distMm |-> distToMm(dv, du)]
    /\ UNCHANGED <<calStep, dv, du, ss>>
    /\ UNCHANGED fftVars
    /\ UNCHANGED massVars
    /\ UNCHANGED hostVars
    /\ UNCHANGED handoffVars
    /\ UNCHANGED shrinkVars
    /\ data' = TRUE
    /\ shown' = -1

\* beginTestAfterPreTest(), reached by the phone's preTestAnswer message and
\* by submitPreTest.
BeginTestAfterPreTest(r, a) ==
    /\ inPreTest' = FALSE
    /\ testStarted' = TRUE
    /\ inTutorial' = FALSE
    /\ nextTrial(engine, <<>>, selectedSinceUpdate, r, a)
    /\ UNCHANGED <<engine, warnings, tutStep, sinceInput>>
    /\ UNCHANGED instanceVars
    /\ UNCHANGED calVars
    /\ UNCHANGED fftVars
    /\ UNCHANGED massVars
    /\ UNCHANGED hostVars
    /\ UNCHANGED handoffVars
    /\ UNCHANGED shrinkVars
    /\ UNCHANGED data

\* A call of handleInput that returns at one of its guards.
Ignored ==
    /\ calls' = <<>>
    /\ UNCHANGED <<engine, warnings, ctlVars>>
    /\ UNCHANGED instanceVars
    /\ UNCHANGED calVars
    /\ UNCHANGED fftVars
    /\ UNCHANGED massVars
    /\ UNCHANGED hostVars
    /\ UNCHANGED handoffVars
    /\ UNCHANGED shrinkVars
    /\ UNCHANGED displayVars

\* handleInput while inTutorial: advanceTut(value), then the tutorial ends
\* if the test has started or the pre-test is showing.
TutorialInput(value) ==
    LET matches  == value = TUT[tutStep + 1]
        last     == tutStep = Len(TUT) - 1
        preTest1 == IF matches /\ last THEN TRUE ELSE inPreTest
    IN  /\ tutStep' = IF matches /\ ~last THEN tutStep + 1 ELSE tutStep
        /\ inPreTest' = preTest1
        /\ inTutorial' = IF testStarted \/ preTest1 THEN FALSE ELSE inTutorial
        /\ calls' = <<>>
        /\ UNCHANGED <<engine, warnings, mode, currentStim, testComplete, testStarted,
                       sinceInput, lastSelected, selectedSinceUpdate>>
        /\ UNCHANGED instanceVars
        /\ UNCHANGED calVars
        /\ UNCHANGED fftVars
        /\ UNCHANGED massVars
        /\ UNCHANGED hostVars
        /\ UNCHANGED handoffVars
        /\ UNCHANGED shrinkVars
        /\ UNCHANGED displayVars

\* handleInput past its guards: the response is scored, the engine updated,
\* and the test finishes or goes on to the next trial.
updateCall(e, stimIndex, detected) ==
    [op |-> "update", stimIndex |-> stimIndex, detected |-> detected,
     total |-> UpdateTotal(e, stimIndex, detected)]

\* The rest of handleInput once engine.update has returned engine e1.
Updated(e1, upd, r, a) ==
    /\ sinceInput' = 0
    /\ engine' = e1
    /\ IF budgetReached(e1)
       THEN /\ testComplete' = TRUE
            /\ calls' = <<upd>> \o finishCalls(e1)
            /\ selectedSinceUpdate' = FALSE
            /\ UNCHANGED <<currentStim, mode, lastSelected, shown>>
       ELSE nextTrial(e1, <<upd>>, FALSE, r, a)
    /\ UNCHANGED <<warnings, testStarted, inTutorial, inPreTest, tutStep>>
    /\ UNCHANGED instanceVars
    /\ UNCHANGED calVars
    /\ UNCHANGED fftVars
    /\ UNCHANGED massVars
    /\ UNCHANGED hostVars
    /\ UNCHANGED handoffVars
    /\ UNCHANGED shrinkVars
    /\ UNCHANGED data

Response(value, r, a) ==
    Updated(update(engine, updateArg(currentStim), checkAnswer(mode, value)),
            updateCall(engine, updateArg(currentStim), checkAnswer(mode, value)),
            r, a)

\* handleInput(value), from the phone, the keyboard or window.handleInput.
HandleInput(value, r, a) ==
    IF testComplete THEN Ignored
    ELSE IF inTutorial THEN TutorialInput(value)
    ELSE IF inPreTest THEN Ignored
    ELSE IF ~testStarted \/ currentStim = NoStim \/ mode = NoMode THEN Ignored
    ELSE IF value \notin KeySet(mode) THEN Ignored
    ELSE IF sinceInput < DEBOUNCE_MS THEN Ignored
    ELSE Response(value, r, a)

\* Time passes; performance.now() - lastInputTime is followed up to DEBOUNCE_MS.
Tick(dt) ==
    /\ sinceInput < DEBOUNCE_MS
    /\ sinceInput' = IF sinceInput + dt > DEBOUNCE_MS THEN DEBOUNCE_MS ELSE sinceInput + dt
    /\ calls' = <<>>
    /\ UNCHANGED <<engine, warnings, mode, currentStim, testComplete, testStarted,
                   inTutorial, inPreTest, tutStep, lastSelected, selectedSinceUpdate>>
    /\ UNCHANGED instanceVars
    /\ UNCHANGED calVars
    /\ UNCHANGED fftVars
    /\ UNCHANGED massVars
    /\ UNCHANGED hostVars
    /\ UNCHANGED handoffVars
    /\ UNCHANGED shrinkVars
    /\ UNCHANGED displayVars

\* Values handed to handleInput: the tutorial keys and two response keys.
InputValues == {"12oclock", "1oclock", "2oclock", "3oclock", "4oclock", "5oclock",
                "none", "up", "right"}

\* Values of Math.random() in the controller's runs, in units.
CtlRandoms == {0}

\* Steps of time, in ms.
Ticks == {DEBOUNCE_MS}

\* The observer may answer wrongly only in the first FreeResponses trials of a test.
FreeResponses == 2

\* Whether handleInput(value) would score a response that the observer,
\* as bounded, does not give.
Withheld(value) ==
    /\ ~testComplete /\ ~inTutorial /\ ~inPreTest
    /\ testStarted /\ currentStim # NoStim /\ mode # NoMode
    /\ value \in KeySet(mode)
    /\ sinceInput >= DEBOUNCE_MS
    /\ ~checkAnswer(mode, value)
    /\ engine.trialCount >= FreeResponses

NextCtl ==
    \/ StartTest
    \/ \E r \in CtlRandoms, a \in CtlRandoms : BeginTestAfterPreTest(r, a)
    \/ \E value \in InputValues, r \in CtlRandoms, a \in CtlRandoms :
           ~Withheld(value) /\ HandleInput(value, r, a)
    \/ \E dt \in Ticks : Tick(dt)

SpecCtl == Init /\ [][NextCtl]_vars

\* The values the keydown handler of the controller hands to handleInput
\* (keys 1 to 6, 0 and space).
KeyboardValues == {"12oclock", "1oclock", "2oclock", "3oclock", "4oclock", "5oclock",
                   "none"}

\* A key press of the observer on the controller's keyboard.
KeyboardInput ==
    \E value \in KeyboardValues, r \in CtlRandoms, a \in CtlRandoms :
        ~Withheld(value) /\ HandleInput(value, r, a)

\* The controller with an observer who keeps pressing keys of the keyboard
\* handler, while time keeps passing.
SpecKeyboard ==
    /\ Init
    /\ [][NextCtl]_vars
    /\ WF_vars(KeyboardInput)
    /\ WF_vars(\E dt \in Ticks : Tick(dt))

(***************************************************************************)
(* selectStimulus on engines at every stage of a test                      *)
(***************************************************************************)

\* Length of the longest replayed test.
SelectTrials == 9

\* The engine after n trials, each on the stimulus selectStimulus ranks
\* first, all answered correctly except trial wrongAt (0 for none).
RECURSIVE Replay(_, _, _)
Replay(e, n, wrongAt) ==
    IF e.trialCount >= n THEN e
    ELSE Replay(update(e, selectStimulus(e, 0).stimIndex, e.trialCount + 1 # wrongAt),
                n, wrongAt)

SelectConfigs ==
    { DEFAULTS,
      [DEFAULTS EXCEPT !.numAFC = 4],
      [DEFAULTS EXCEPT !.stimFreqs = <<4000>>] }

SelectEngines ==
    { Replay(NewEngine(cfg), n, w) : cfg \in SelectConfigs, n \in 0..SelectTrials,
                                     w \in 0..SelectTrials }

\* Values of Math.random() that reach each of the five places of the top set.
SelectRandoms == {0, 250, 500, 750, 999}

InitSelect ==
    /\ engine \in SelectEngines
    /\ calls = <<>>
    /\ warnings = <<>>
    /\ mode = NoMode
    /\ currentStim = NoStim
    /\ testComplete = FALSE
    /\ testStarted = FALSE
    /\ inTutorial = FALSE
    /\ inPreTest = FALSE
    /\ tutStep = 0
    /\ sinceInput = 0
    /\ lastSelected = -1
    /\ selectedSinceUpdate = FALSE
    /\ instances = <<>>
    /\ heap = <<>>
    /\ CalInit
    /\ data = FALSE
    /\ shown = -1
    /\ FftInit
    /\ MassInit
    /\ HostInit
    /\ HandoffInit
    /\ ShrinkInit

NextSelect == \E r \in SelectRandoms : SelectStimulus(r)

SpecSelect == InitSelect /\ [][NextSelect]_vars

(***************************************************************************)
(* Calibration and the start of a test                                     *)
(***************************************************************************)

\* Number of calibration steps on the page.
NUM_STEPS == 5

\* Highest calibration step followed; calGo assigns calStep before it looks
\* up the step's element, so nav messages count past the last step.
MaxCalStep == 6

\* calGo(n): calStep is assigned first; for a step the page does not have
\* the element lookup then throws and no calStep message is sent.
CalGo(n) ==
    /\ calStep' = n
    /\ calls' = IF n < NUM_STEPS
                THEN <<[op |-> "tx", type |-> "calStep", step |-> n]>>
                ELSE <<>>
    /\ UNCHANGED <<engine, warnings, ctlVars, instanceVars, displayVars, fftVars, massVars, hostVars, handoffVars, shrinkVars, dv, du, ss, cal>>

\* Whether calValidate accepts the distance field: it must hold a number
\* above 0, and the distance must be neither < 4572 mm nor > 30000 mm.
calAccepts(value, unit) ==
    /\ ~IsNaN(value)
    /\ value > 0
    /\ ~Lt(distToMm(value, unit), 4572 * SCALE)
    /\ ~Gt(distToMm(value, unit), 30000 * SCALE)

\* window.calValidate: shows the summary step, or an error text.
CalValidate ==
    IF calAccepts(dv, du)
    THEN /\ calStep' = 4
         /\ calls' = <<[op |-> "tx", type |-> "calStep", step |-> 4],
                       [op |-> "tx", type |-> "calSummary", distMm |-> distToMm(dv, du)]>>
         /\ UNCHANGED <<engine, warnings, ctlVars, instanceVars, displayVars, fftVars, massVars, hostVars, handoffVars, shrinkVars, dv, du, ss, cal>>
    ELSE /\ calls' = <<>>
         /\ UNCHANGED <<engine, warnings, ctlVars, instanceVars, displayVars, fftVars, massVars, hostVars, handoffVars, shrinkVars, calVars>>

\* The phone's distance message.
PhoneDistance(value, unit) ==
    /\ dv' = value
    /\ du' = unit
    /\ calls' = <<>>
    /\ UNCHANGED <<engine, warnings, ctlVars, instanceVars, displayVars, fftVars, massVars, hostVars, handoffVars, shrinkVars, calStep, ss, cal>>

\* The phone's cardSize message.
PhoneCardSize(px) ==
    /\ ss' = px
    /\ calls' = <<>>
    /\ UNCHANGED <<engine, warnings, ctlVars, instanceVars, displayVars, fftVars, massVars, hostVars, handoffVars, shrinkVars, calStep, dv, du, cal>>

\* The phone's nav message with to = 'next'.
NavNext ==
    /\ calStep < MaxCalStep
    /\ IF calStep = 3 THEN CalValidate ELSE CalGo(calStep + 1)

\* The phone's nav message with to = 'back'.
NavBack == CalGo(IF calStep > 0 THEN calStep - 1 ELSE 0)

\* The phone's mirror message: setMirror ends in calGo(2).
SetMirror == CalGo(2)

\* Values of the distance message: no number, 0, and distances that are too
\* short, valid or too far depending on the unit.
DistanceValues == {NaN, 0, 500, 20 * SCALE, 120 * SCALE}

\* Units of the distance message; "" stands for any unit the page does not offer.
DistanceUnits == {"ft", "m", "cm", "in", ""}

CardSizes == {250 * SCALE, 350 * SCALE}

NextCal ==
    \/ \E value \in DistanceValues, unit \in DistanceUnits : PhoneDistance(value, unit)
    \/ \E px \in CardSizes : PhoneCardSize(px)
    \/ NavNext
    \/ NavBack
    \/ SetMirror
    \/ CalValidate
    \/ StartTest

SpecCal == Init /\ [][NextCal]_vars

(***************************************************************************)
(* Results of engines at several stages of a test                          *)
(***************************************************************************)

\* Length of the longest test replayed before the result is computed.
ResultTrials == 3

\* Grids that hold values of the shipped defaults beyond the display
\* guards, and a grid of low gain.
ResultConfigs ==
    { DEFAULTS,
      [DEFAULTS EXCEPT !.peakFreqValues = <<2500, 14000>>,
                       !.bandwidthValues = <<800, 1300>>,
                       !.truncationValues = <<1000, 1800>>],
      [DEFAULTS EXCEPT !.peakGainValues = <<500>>] }

\* The replayed engines, and one whose posterior an update with an index
\* past the grid has turned to NaN.
ResultEngines ==
    { Replay(NewEngine(cfg), n, w) : cfg \in ResultConfigs, n \in 0..ResultTrials,
                                     w \in 0..ResultTrials }
    \cup { update(NewEngine(DEFAULTS), NewEngine(DEFAULTS).nStim, TRUE) }

\* Areas on and around every threshold of the ranking, and NaN.
ResultAreas ==
    {NaN, 0, 799, 800, 801, 1199, 1200, 1201, 1599, 1600, 1601, 1999, 2000, 2001, 3000}

InitResult ==
    /\ engine \in ResultEngines
    /\ calls = <<>>
    /\ warnings = <<>>
    /\ mode = NoMode
    /\ currentStim = NoStim
    /\ testComplete = FALSE
    /\ testStarted = FALSE
    /\ inTutorial = FALSE
    /\ inPreTest = FALSE
    /\ tutStep = 0
    /\ sinceInput = 0
    /\ lastSelected = -1
    /\ selectedSinceUpdate = FALSE
    /\ instances = <<>>
    /\ heap = <<>>
    /\ CalInit
    /\ data = FALSE
    /\ shown = -1
    /\ FftInit
    /\ MassInit
    /\ HostInit
    /\ HandoffInit
    /\ ShrinkInit

\* The functions are pure and leave the engine alone: each behaviour computes
\* the result of its engine once.
NoResultYet == calls = <<>>

\* computeResult(engine) of results.js
ComputeResult ==
    /\ NoResultYet
    /\ calls' = <<[op |-> "computeResult", ret |-> computeResult(engine)]>>
    /\ UNCHANGED <<engine, warnings, ctlVars>>
    /\ UNCHANGED instanceVars
    /\ UNCHANGED calVars
    /\ UNCHANGED fftVars
    /\ UNCHANGED massVars
    /\ UNCHANGED hostVars
    /\ UNCHANGED handoffVars
    /\ UNCHANGED shrinkVars
    /\ UNCHANGED displayVars

\* computeResult(engine) of part_001; raw is the posterior mean it starts
\* from, which the returned record does not carry.
ComputeDisplayResult ==
    /\ NoResultYet
    /\ calls' = <<[op |-> "computeDisplayResult", raw |-> getExpectedEstimate(engine),
                   ret |-> computeDisplayResult(engine)]>>
    /\ UNCHANGED <<engine, warnings, ctlVars>>
    /\ UNCHANGED instanceVars
    /\ UNCHANGED calVars
    /\ UNCHANGED fftVars
    /\ UNCHANGED massVars
    /\ UNCHANGED hostVars
    /\ UNCHANGED handoffVars
    /\ UNCHANGED shrinkVars
    /\ UNCHANGED displayVars

\* computeResult on an object whose computeAULCSF() returns aulcsf.
ComputeResultOfArea(aulcsf) ==
    /\ NoResultYet
    /\ calls' = <<[op |-> "computeResult",
                   ret |-> ResultOf(getExpectedEstimate(engine), aulcsf, <<>>)]>>
    /\ UNCHANGED <<engine, warnings, ctlVars>>
    /\ UNCHANGED instanceVars
    /\ UNCHANGED calVars
    /\ UNCHANGED fftVars
    /\ UNCHANGED massVars
    /\ UNCHANGED hostVars
    /\ UNCHANGED handoffVars
    /\ UNCHANGED shrinkVars
    /\ UNCHANGED displayVars

\* Parameter points whose curve lies below 0 everywhere, touches 0 at its
\* peak, rises above 0, has its peak beyond the sampled range, or is NaN.
AreaParams ==
    { [peakGain |-> g, peakFreq |-> f, bandwidth |-> 1300, truncation |-> 1800] :
          g \in {-500, 0, 2000}, f \in {2500, 18000} }
    \cup { [peakGain |-> NaN, peakFreq |-> NaN, bandwidth |-> NaN, truncation |-> NaN] }

\* engine.computeAULCSF(params)
ComputeAULCSFOf(params) ==
    /\ NoResultYet
    /\ calls' = <<[op |-> "computeAULCSF", params |-> params,
                   ret |-> computeAULCSF(params)]>>
    /\ UNCHANGED <<engine, warnings, ctlVars>>
    /\ UNCHANGED instanceVars
    /\ UNCHANGED calVars
    /\ UNCHANGED fftVars
    /\ UNCHANGED massVars
    /\ UNCHANGED hostVars
    /\ UNCHANGED handoffVars
    /\ UNCHANGED shrinkVars
    /\ UNCHANGED displayVars

\* finish() of the controller.
Finish ==
    /\ NoResultYet
    /\ ~testComplete
    /\ testComplete' = TRUE
    /\ calls' = finishCalls(engine)
    /\ UNCHANGED <<engine, warnings, mode, currentStim, testStarted, inTutorial,
                   inPreTest, tutStep, sinceInput, lastSelected, selectedSinceUpdate>>
    /\ UNCHANGED instanceVars
    /\ UNCHANGED calVars
    /\ UNCHANGED fftVars
    /\ UNCHANGED massVars
    /\ UNCHANGED hostVars
    /\ UNCHANGED handoffVars
    /\ UNCHANGED shrinkVars
    /\ UNCHANGED displayVars

NextResult ==
    \/ ComputeResult
    \/ ComputeDisplayResult
    \/ \E aulcsf \in ResultAreas : ComputeResultOfArea(aulcsf)
    \/ \E params \in AreaParams : ComputeAULCSFOf(params)
    \/ Finish

SpecResult == InitResult /\ [][NextResult]_vars

(***************************************************************************)
(* The stimulus modes, and engines built for them                          *)
(***************************************************************************)

\* initMode(modeId) of the multi-mode display controller
\* (src/unnamed/part_006).  generated: whether mode.generate() returned; a
\* throw is caught and logged, and the engine is built all the same.
InitMode(modeId, generated) ==
    /\ mode' = createMode(modeId)
    /\ engine' = NewEngine(modeOptions(createMode(modeId)))
    /\ calls' = <<[op |-> "createMode", id |-> modeId],
                  [op |-> "new", cfg |-> modeOptions(createMode(modeId))]>>
    /\ testComplete' = FALSE
    /\ testStarted' = FALSE
    /\ currentStim' = NoStim
    /\ lastSelected' = -1
    /\ selectedSinceUpdate' = FALSE
    /\ UNCHANGED <<warnings, inTutorial, inPreTest, tutStep, sinceInput>>
    /\ UNCHANGED instanceVars
    /\ UNCHANGED calVars
    /\ UNCHANGED fftVars
    /\ UNCHANGED massVars
    /\ UNCHANGED hostVars
    /\ UNCHANGED handoffVars
    /\ UNCHANGED shrinkVars
    /\ data' = generated
    /\ shown' = -1

\* mode.render(canvas, stim, cal) with Math.random() = a / SCALE.
Render(a) ==
    /\ mode # NoMode
    /\ mode' = render(mode, a)
    /\ calls' = <<[op |-> "render", ret |-> rendered(render(mode, a))]>>
    /\ UNCHANGED <<engine, warnings, currentStim, testComplete, testStarted, inTutorial,
                   inPreTest, tutStep, sinceInput, lastSelected, selectedSinceUpdate>>
    /\ UNCHANGED instanceVars
    /\ UNCHANGED calVars
    /\ UNCHANGED fftVars
    /\ UNCHANGED massVars
    /\ UNCHANGED hostVars
    /\ UNCHANGED handoffVars
    /\ UNCHANGED shrinkVars
    /\ UNCHANGED displayVars

\* mode.checkAnswer(response)
CheckAnswer(response) ==
    /\ mode # NoMode
    /\ calls' = <<[op |-> "checkAnswer", response |-> response,
                   ret |-> checkAnswer(mode, response)]>>
    /\ UNCHANGED <<engine, warnings, ctlVars>>
    /\ UNCHANGED instanceVars
    /\ UNCHANGED calVars
    /\ UNCHANGED fftVars
    /\ UNCHANGED massVars
    /\ UNCHANGED hostVars
    /\ UNCHANGED handoffVars
    /\ UNCHANGED shrinkVars
    /\ UNCHANGED displayVars

\* Options that set the guess rate, the lapse rate and the slope: yes/no and
\* forced choice, the default false-alarm rate and another, and a steep
\* function that neither guesses nor lapses.
GuessConfigs ==
    { DEFAULTS,
      [DEFAULTS EXCEPT !.numAFC = 1],
      [DEFAULTS EXCEPT !.numAFC = 1, !.falseAlarmRate = 50],
      [DEFAULTS EXCEPT !.numAFC = 3, !.falseAlarmRate = 50],
      [DEFAULTS EXCEPT !.numAFC = 1, !.falseAlarmRate = 0, !.lapse = 0,
                       !.psychometricSlope = 10000] }

\* Values of Math.random() that reach each of the ten Sloan letters and each
\* of the four orientations, in units.
ModeRandoms == {0, 100, 200, 300, 400, 500, 600, 700, 800, 900}

\* Responses handed to checkAnswer: a key of the Gabor and the tumbling E, a
\* Sloan key and label, the "no target" key, and a Gabor angle as a property
\* key.
ModeResponses == {"up", "c", "Z", "none", ToString(ORIENTATIONS_4[1])}

NextModes ==
    \/ \E modeId \in {MODE_IDS[i] : i \in DOMAIN MODE_IDS} : InitMode(modeId, TRUE)
    \/ StartTest
    \/ \E cfg \in GuessConfigs : Construct(cfg)
    \/ \E a \in ModeRandoms : Render(a)
    \/ \E response \in ModeResponses : CheckAnswer(response)

SpecModes == Init /\ [][NextModes]_vars

(***************************************************************************)
(* The trial loop of the multi-mode display controller                     *)
(* (src/unnamed/part_006)                                                  *)
(***************************************************************************)

\* finish() of the multi-mode controller, after the calls pre of the handler.
finishMulti(pre) ==
    /\ testComplete' = TRUE
    /\ calls' = pre \o <<[op |-> "finish"]>>
    /\ selectedSinceUpdate' = FALSE
    /\ UNCHANGED <<currentStim, mode, lastSelected, shown>>

\* The part of handleInput after the debounce: the response is scored for
\* currentStim, then the test finishes or the next trial is drawn.
ScoredMulti(e1, upd, r, a) ==
    /\ sinceInput' = 0
    /\ engine' = e1
    /\ IF budgetReached(e1)
       THEN finishMulti(<<upd>>)
       ELSE nextTrial(e1, <<upd>>, FALSE, r, a)
    /\ UNCHANGED <<warnings, testStarted, inTutorial, inPreTest, tutStep>>
    /\ UNCHANGED instanceVars
    /\ UNCHANGED calVars
    /\ UNCHANGED fftVars
    /\ UNCHANGED massVars
    /\ UNCHANGED hostVars
    /\ UNCHANGED handoffVars
    /\ UNCHANGED shrinkVars
    /\ UNCHANGED data

\* The first input of a test: it starts the test and draws the first trial.
FirstInputMulti(r, a) ==
    /\ testStarted' = TRUE
    /\ nextTrial(engine, <<>>, selectedSinceUpdate, r, a)
    /\ UNCHANGED <<engine, warnings, inTutorial, inPreTest, tutStep, sinceInput>>
    /\ UNCHANGED instanceVars
    /\ UNCHANGED calVars
    /\ UNCHANGED fftVars
    /\ UNCHANGED massVars
    /\ UNCHANGED hostVars
    /\ UNCHANGED handoffVars
    /\ UNCHANGED shrinkVars
    /\ UNCHANGED data

\* handleInput(value) of the multi-mode controller.
HandleInputMulti(value, r, a) ==
    IF testComplete THEN Ignored
    ELSE IF ~testStarted THEN FirstInputMulti(r, a)
    ELSE IF currentStim = NoStim \/ mode = NoMode THEN Ignored
    ELSE IF sinceInput < DEBOUNCE_MS THEN Ignored
    ELSE ScoredMulti(update(engine, updateArg(currentStim), checkAnswer(mode, value)),
                     updateCall(engine, updateArg(currentStim), checkAnswer(mode, value)),
                     r, a)

\* The runs of the multi-mode controller are followed for MultiTrials scored
\* responses.
MultiTrials == 2

\* Values handed to handleInput, and values of Math.random(), in units.
MultiInputs == {"up", "right"}
MultiRandoms == {0, 500}

NextMulti ==
    \/ \E modeId \in {MODE_IDS[i] : i \in DOMAIN MODE_IDS}, generated \in BOOLEAN :
           InitMode(modeId, generated)
    \/ \E value \in MultiInputs, r \in CtlRandoms, a \in MultiRandoms :
           /\ mode # NoMode
           /\ engine.trialCount < MultiTrials
           /\ HandleInputMulti(value, r, a)
    \/ \E dt \in Ticks : Tick(dt)

SpecMulti == Init /\ [][NextMulti]_vars

(***************************************************************************)
(* Engines side by side                                                    *)
(***************************************************************************)

\* An object's prior and history fields hold the addresses of arrays in the
\* heap; update writes through them.  The grids and the matrix are written
\* by the constructor only and are kept in the object.

\* A variant of the constructor's allocation that keeps every posterior in
\* one array of the module.
priorAddress_shared(h) == 1

\* this.prior = new Float64Array(nParams): a fresh array.
priorAddress(h) == Len(h) + 1

\* this.history = []: a fresh array, allocated after the posterior.
historyAddress(h) == Len(h) + 2

\* The engine an object stands for: its fields with the arrays read through.
Deref(h, obj) == [obj EXCEPT !.prior = h[obj.prior], !.history = h[obj.history]]

\* Most objects side by side, and most updates made on them in total.
MaxInstances == 2

MaxInstanceUpdates == 3

RECURSIVE TotalTrials(_)
TotalTrials(objs) ==
    IF objs = <<>> THEN 0
    ELSE TotalTrials(SubSeq(objs, 1, Len(objs) - 1)) + objs[Len(objs)].trialCount

\* new QCSFEngine(options) next to the objects there are.
ConstructInstance(cfg) ==
    /\ Len(instances) < MaxInstances
    /\ heap' = [a \in 1..(Len(heap) + 2) |->
                   IF a = priorAddress(heap) THEN NewEngine(cfg).prior
                   ELSE IF a = historyAddress(heap) THEN NewEngine(cfg).history
                   ELSE IF a <= Len(heap) THEN heap[a] ELSE <<>>]
    /\ instances' = Append(instances, [NewEngine(cfg) EXCEPT !.prior = priorAddress(heap),
                                                            !.history = historyAddress(heap)])
    /\ calls' = <<[op |-> "new", cfg |-> cfg, instance |-> Len(instances) + 1]>>
    /\ UNCHANGED <<engine, warnings, ctlVars>>
    /\ UNCHANGED calVars
    /\ UNCHANGED fftVars
    /\ UNCHANGED massVars
    /\ UNCHANGED hostVars
    /\ UNCHANGED handoffVars
    /\ UNCHANGED shrinkVars
    /\ UNCHANGED displayVars

\* What update leaves behind, e1 being the engine after it: the arrays are
\* written in place, trialCount in the object.
Written(i, e1, upd) ==
    /\ heap' = [heap EXCEPT ![instances[i].prior] = e1.prior,
                            ![instances[i].history] = e1.history]
    /\ instances' = [instances EXCEPT ![i].trialCount = e1.trialCount]
    /\ calls' = <<[upd EXCEPT !.instance = i]>>
    /\ UNCHANGED <<engine, warnings, ctlVars>>
    /\ UNCHANGED calVars
    /\ UNCHANGED fftVars
    /\ UNCHANGED massVars
    /\ UNCHANGED hostVars
    /\ UNCHANGED handoffVars
    /\ UNCHANGED shrinkVars
    /\ UNCHANGED displayVars

\* instances[i].update(stimIndex, detected)
UpdateInstance(i, stimIndex, detected) ==
    /\ i \in DOMAIN instances
    /\ TotalTrials(instances) < MaxInstanceUpdates
    /\ Written(i, update(Deref(heap, instances[i]), stimIndex, detected),
               [op |-> "update", instance |-> 0, stimIndex |-> stimIndex,
                detected |-> detected,
                total |-> UpdateTotal(Deref(heap, instances[i]), stimIndex, detected)])

NextInstances ==
    \/ \E cfg \in {DEFAULTS, [DEFAULTS EXCEPT !.numAFC = 4]} : ConstructInstance(cfg)
    \/ \E i \in 1..MaxInstances, stimIndex \in {0}, detected \in BOOLEAN :
           UpdateInstance(i, stimIndex, detected)

SpecInstances == Init /\ [][NextInstances]_vars

(***************************************************************************)
(* Properties of the engine                                                *)
(***************************************************************************)

\* The calls of a step that are updates.
UpdateCallsOf(cs) == {i \in DOMAIN cs : cs[i].op = "update"}

InGrid(e, stimIndex) == stimIndex >= 0 /\ stimIndex < e.nStim

NonNegative(p) == \A h \in DOMAIN p : Ge(p[h], 0)

\* The posterior sums to 1, up to one unit of rounding per entry.
SumsToOne(p) ==
    LET total == SumSeq(p)
    IN  IsFinite(total) /\ total >= SCALE - Len(p) /\ total <= SCALE + Len(p)

\* C1: after every update with a stimulus index of the grid, every posterior
\* entry is >= 0 and the posterior sums to 1.
PosteriorIsProbabilityMeasure ==
    (HasEngine /\ LastCall.op = "update" /\ \A k \in DOMAIN engine.history :
                                            InGrid(engine, engine.history[k].stimIndex))
        => (NonNegative(engine.prior) /\ SumsToOne(engine.prior))

\* The same, on engines whose parameter grid is not empty.
PosteriorIsProbabilityMeasureOnNonEmptyGrid ==
    (HasEngine /\ LastCall.op = "update" /\ engine.nParams > 0
               /\ \A k \in DOMAIN engine.history :
                      InGrid(engine, engine.history[k].stimIndex))
        => (NonNegative(engine.prior) /\ SumsToOne(engine.prior))

\* C2: the history is append-only and in step with trialCount: an update
\* appends exactly one record {trial: trialCount + 1, stimIndex, correct} and
\* adds 1 to trialCount, no other operation on the instance touches the
\* history, history.length = trialCount and history[i].trial = i + 1.
HistoryInStepWithTrialCount ==
    [][ /\ \A i \in UpdateCallsOf(calls') :
              /\ engine'.trialCount = engine.trialCount + 1
              /\ engine'.history =
                     Append(engine.history,
                            [ trial     |-> engine.trialCount + 1,
                              stimIndex |-> calls'[i].stimIndex,
                              correct   |-> calls'[i].detected ])
        /\ (HasEngine /\ UpdateCallsOf(calls') = {} /\ FirstOp(calls') # "new")
              => engine'.history = engine.history
        /\ engine' # NoEngine =>
              /\ Len(engine'.history) = engine'.trialCount
              /\ \A k \in DOMAIN engine'.history : engine'.history[k].trial = k
      ]_vars

\* A second update has been made on an instance: an earlier record is there
\* to be kept.
HistoryInStepWitness ==
    /\ HasEngine
    /\ LastCall.op = "update"
    /\ engine.trialCount = 2
    /\ engine.history[1] # engine.history[2]

\* C3: after construction no operation modifies the likelihood matrix, the
\* parameter grid or the stimulus grid, and only update modifies the
\* posterior, the history and trialCount: every other operation leaves the
\* whole engine unchanged.
OnlyUpdateWritesEngineState ==
    [][ (HasEngine /\ FirstOp(calls') # "new") =>
            /\ engine'.pCorrectMatrix = engine.pCorrectMatrix
            /\ engine'.paramGrid = engine.paramGrid
            /\ engine'.stimGrid = engine.stimGrid
            /\ UpdateCallsOf(calls') = {} => engine' = engine
      ]_vars

\* A selection has been made on an engine that has been updated.
OnlyUpdateWritesWitness ==
    /\ HasEngine
    /\ LastCall.op = "selectStimulus"
    /\ ~LastCall.ret.threw
    /\ engine.trialCount > 0

\* C7: an update whose total posterior mass is 0 leaves the posterior as it
\* was before the call and surfaces a warning.
ZeroTotalKeepsPosteriorAndWarns ==
    [][ \A i \in UpdateCallsOf(calls') :
            calls'[i].total = 0 =>
                /\ engine'.prior = engine.prior
                /\ Len(warnings') > Len(warnings)
      ]_vars

\* An update has computed a total of 0.
ZeroTotalReached ==
    /\ HasEngine
    /\ LastCall.op = "update"
    /\ LastCall.total = 0

AllNonFinite(ee) == \A s \in DOMAIN ee : ~IsFinite(ee[s])

\* C8: when every expected entropy is non-finite, selectStimulus returns the
\* stimulus with the largest predicted probability of a correct response and
\* records a warning.
DegenerateSelectionFallsBack ==
    (HasEngine /\ LastCall.op = "selectStimulus"
               /\ engine.nStim > 0 /\ AllNonFinite(ExpectedEntropies(engine)))
        => /\ ~LastCall.ret.threw
           /\ \A s \in 1..engine.nStim :
                  ~Gt(PCorr(engine, s), PCorr(engine, LastCall.ret.stimIndex + 1))
           /\ warnings # <<>>

\* A selection has been made with every expected entropy non-finite.
DegenerateSelectionReached ==
    /\ HasEngine
    /\ LastCall.op = "selectStimulus"
    /\ engine.nStim > 0
    /\ AllNonFinite(ExpectedEntropies(engine))

\* C9: an update whose stimIndex is outside the grid is not recorded as a
\* trial: posterior, trialCount and history stay as they were.
OutOfRangeUpdateNotRecorded ==
    [][ \A i \in UpdateCallsOf(calls') :
            ~InGrid(engine, calls'[i].stimIndex) =>
                /\ engine'.prior = engine.prior
                /\ engine'.trialCount = engine.trialCount
                /\ engine'.history = engine.history
      ]_vars

\* An out-of-range update is in the history of an engine with both grids
\* non-empty, and has left a NaN in the posterior.
OutOfRangeUpdateCorrupts ==
    /\ HasEngine
    /\ engine.nParams > 0
    /\ engine.nStim > 0
    /\ \E k \in DOMAIN engine.history : ~InGrid(engine, engine.history[k].stimIndex)
    /\ \E h \in DOMAIN engine.prior : IsNaN(engine.prior[h])

\* C10: no engine with an empty parameter grid or an empty stimulus grid is
\* ever constructed, so none reaches selectStimulus, update or the estimates.
NoEngineWithEmptyGrid ==
    HasEngine => (engine.nParams > 0 /\ engine.nStim > 0)

\* An operation has been carried out on an engine with an empty grid.
EmptyGridEngineUsed ==
    /\ HasEngine
    /\ engine.nParams = 0 \/ engine.nStim = 0
    /\ LastCall.op \in {"selectStimulus", "update", "getEstimate", "getExpectedEstimate"}


(***************************************************************************)
(* Properties of the controller and of the selection                       *)
(***************************************************************************)

TrialBudgetEnforced ==
    [][ /\ engine' # NoEngine =>
              /\ engine'.trialCount <= MAX_TRIALS
              /\ engine'.trialCount >= MAX_TRIALS => testComplete'
        /\ testComplete => UpdateCallsOf(calls') = {}
      ]_vars

\* A test has run to MAX_TRIALS and finished, and a stimulus has been
\* selected again on the finished engine.
TrialBudgetWitness ==
    /\ HasEngine
    /\ engine.trialCount = MAX_TRIALS
    /\ testComplete
    /\ LastCall.op = "selectStimulus"

\* The number of stimuli whose expected entropy is lower than that of i.
LowerThan(ee, i) == Cardinality({j \in DOMAIN ee : Lt(ee[j], ee[i])})

\* The size of the top set: 5 in the first 8 trials, a tenth of the grid
\* (rounded up, at least 1) afterwards.
TopSetSize(e) == IF e.trialCount < 8 THEN 5 ELSE MathMax(1, (e.nStim + 9) \div 10)

LabelSet(m) == {m.labels[i] : i \in DOMAIN m.labels}

\* The value render returned, as checkAnswer reads it when it is handed in
\* as the response: the Gabor's angle is a number, which map[response] reads
\* as the property key of its decimal string.
AsResponse(m, truth) == IF m.id = "gabor" THEN ToString(truth) ELSE truth

\* The response key that stands for the ground truth render returned.
KeyFor(m, truth) ==
    IF m.id = "gabor" THEN ANGLE_MAP(truth)
    ELSE IF m.id = "tumblingE" THEN truth
    ELSE toLowerCase(truth)

GaborTrialAwaitsResponse ==
    /\ mode # NoMode /\ mode.id = "gabor"
    /\ HasEngine /\ currentStim # NoStim
    /\ testStarted /\ ~testComplete /\ ~inTutorial /\ ~inPreTest
    /\ sinceInput >= DEBOUNCE_MS

\* C12: a "no target" response given during a Gabor trial is scored as an
\* incorrect trial: the step that handles it updates the engine with
\* correct = false.
NoTargetScoredIncorrect ==
    [][ (GaborTrialAwaitsResponse
           /\ \E r \in CtlRandoms, a \in CtlRandoms : HandleInput("none", r, a))
          => \E i \in UpdateCallsOf(calls') : ~calls'[i].detected
      ]_vars

\* A Gabor trial has been put on display and awaits its response.
NoTargetGivenDuringTrial ==
    /\ GaborTrialAwaitsResponse
    /\ LastCall.op = "selectStimulus"

(***************************************************************************)
(* Properties of engines side by side                                      *)
(***************************************************************************)

\* C13: an update on one QCSFEngine object leaves the posterior, the history
\* and the trialCount of every other object as they were.
InstancesShareNoState ==
    [][ \A c \in UpdateCallsOf(calls') :
            \A j \in DOMAIN instances \ {calls'[c].instance} :
                /\ Deref(heap', instances'[j]).prior = Deref(heap, instances[j]).prior
                /\ Deref(heap', instances'[j]).history = Deref(heap, instances[j]).history
                /\ instances'[j].trialCount = instances[j].trialCount
      ]_vars

\* Two objects built from the default configuration: the second has just
\* been updated while the first holds a posterior that an update has shaped.
InstancesShareNoStateWitness ==
    /\ Len(instances) = 2
    /\ calls # <<>> /\ LastCall.op = "update" /\ LastCall.instance = 2
    /\ instances[1].numAFC = DEFAULTS.numAFC /\ instances[2].numAFC = DEFAULTS.numAFC
    /\ instances[1].trialCount = 1
    /\ Deref(heap, instances[1]).prior # Deref(heap, instances[2]).prior

(***************************************************************************)
(* Properties of the psychometric function of an engine                    *)
(***************************************************************************)

\* C14: every entry of the likelihood matrix lies in [0.001, 0.999].
LikelihoodWithinBounds ==
    HasEngine =>
        \A h \in 1..engine.nParams : \A s \in 1..engine.nStim :
            /\ Ge(engine.pCorrectMatrix[h][s], 1)
            /\ Le(engine.pCorrectMatrix[h][s], SCALE - 1)

\* An engine that neither guesses nor lapses holds an entry at each bound.
LikelihoodAtBothBounds ==
    /\ HasEngine
    /\ engine.gamma = 0 /\ engine.lapse = 0
    /\ \E h \in 1..engine.nParams : \E s \in 1..engine.nStim :
           engine.pCorrectMatrix[h][s] = 1
    /\ \E h \in 1..engine.nParams : \E s \in 1..engine.nStim :
           engine.pCorrectMatrix[h][s] = SCALE - 1

\* gamma is 1 / n, up to the rounding of the grid.
IsOneOver(gamma, n) == gamma * n <= SCALE /\ (gamma + 1) * n > SCALE

ResultsReturned ==
    {calls[k].ret : k \in {j \in DOMAIN calls :
                              calls[j].op \in {"computeResult", "computeDisplayResult"}}}

\* A parameter record with a non-finite entry.
NonFiniteParams(p) ==
    ~IsFinite(p.peakGain) \/ ~IsFinite(p.peakFreq) \/ ~IsFinite(p.bandwidth)
        \/ ~IsFinite(p.truncation)

\* The result has no finite area to rank: it stands for a failed computation,
\* its area is not finite, or its parameters are not.
NoFiniteArea(r) ==
    r.params = NoEngine \/ ~IsFinite(r.aulcsf) \/ NonFiniteParams(r.params)

\* C16: a result that has no finite AULCSF (a degenerate or NaN posterior)
\* has aulcsf = 0 and rank "ERROR"; a non-finite area is never put into one
\* of the normal ranks.
NonFiniteResultIsError ==
    \A r \in ResultsReturned :
        NoFiniteArea(r) => r.aulcsf = 0 /\ r.rank = "ERROR"

\* computeResult has ranked the NaN parameters of a NaN posterior.
NonFiniteResultRanked ==
    /\ LastCall.op = "computeResult"
    /\ NonFiniteParams(LastCall.ret.params)
    /\ LastCall.ret.aulcsf = 0
    /\ LastCall.ret.rank = "IMPAIRED"

\* C17: the rank of a finite area a is SUPERIOR iff a > 2.0, ABOVE AVERAGE
\* iff 1.6 < a <= 2.0, NORMAL iff 1.2 < a <= 1.6, BELOW AVERAGE iff
\* 0.8 < a <= 1.2 and IMPAIRED iff a <= 0.8: every threshold is strict.
RankThresholdsStrict ==
    \A r \in ResultsReturned :
        (r.params # NoEngine /\ IsFinite(r.aulcsf)) =>
            /\ r.rank = "SUPERIOR" <=> r.aulcsf > 2000
            /\ r.rank = "ABOVE AVERAGE" <=> (r.aulcsf > 1600 /\ r.aulcsf <= 2000)
            /\ r.rank = "NORMAL" <=> (r.aulcsf > 1200 /\ r.aulcsf <= 1600)
            /\ r.rank = "BELOW AVERAGE" <=> (r.aulcsf > 800 /\ r.aulcsf <= 1200)
            /\ r.rank = "IMPAIRED" <=> r.aulcsf <= 800

\* An area of exactly 2.0 has been ranked ABOVE AVERAGE.
RankOnThresholdWitness ==
    /\ LastCall.op = "computeResult"
    /\ LastCall.ret.aulcsf = 2000
    /\ LastCall.ret.rank = "ABOVE AVERAGE"

\* C18: the parameters of every result computeResult returns have
\* peakFreq <= 10, bandwidth >= 1.15 and truncation >= 1.4.
ResultParamsWithinGuards ==
    \A r \in ResultsReturned :
        r.params # NoEngine =>
            /\ Le(r.params.peakFreq, 10000)
            /\ Ge(r.params.bandwidth, 1150)
            /\ Ge(r.params.truncation, 1400)

\* computeResult of results.js has returned, from a finite posterior,
\* parameters that lie beyond one of the guards.
ResultParamsBeyondGuards ==
    /\ LastCall.op = "computeResult"
    /\ ~NonFiniteParams(LastCall.ret.params)
    /\ \/ LastCall.ret.params.peakFreq > 10000
       \/ LastCall.ret.params.bandwidth < 1150
       \/ LastCall.ret.params.truncation < 1400

\* The fields of the record computeResult returns.
ResultFields == {"aulcsf", "rank", "detail", "params", "curve"}

\* The result says that a guard was applied: it carries something beyond
\* the adjusted values.
GuardReported(r) == DOMAIN r \ ResultFields # {}

\* C19: when computeResult has applied a guard, so that the parameters it
\* returns are not the posterior mean, the result reports it.
AppliedGuardIsReported ==
    \A k \in DOMAIN calls :
        (calls[k].op = "computeDisplayResult" /\ calls[k].ret.params # calls[k].raw)
            => GuardReported(calls[k].ret)

\* computeResult has returned a bandwidth that is not the posterior mean's.
GuardAppliedSilently ==
    /\ LastCall.op = "computeDisplayResult"
    /\ ~NonFiniteParams(LastCall.raw)
    /\ LastCall.ret.params.bandwidth # LastCall.raw.bandwidth

\* The steps at which a sampled curve goes from >= 0 to < 0.
CurveDownCrossings(curve) ==
    {i \in 2..Len(curve) : /\ IsFinite(curve[i - 1].logS) /\ curve[i - 1].logS >= 0
                           /\ IsFinite(curve[i].logS) /\ curve[i].logS < 0}

\* x lies in lo .. hi, up to the 1 % to which the logarithm and the power of
\* the interpolation are computed (the samples are 2.3 % apart).
Within(x, lo, hi) == x * 100 >= lo * 99 /\ x * 100 <= hi * 101

\* C20: the Snellen prediction of finish() is reported exactly when the
\* sampled curve goes from >= 0 to < 0 somewhere; its cutoff is then above 0
\* and at most MAX_HUMAN_CUTOFF_CPD, and lies between the two samples of the
\* lowest such crossing.
SnellenCutoffAtLowestCrossing ==
    \A k \in DOMAIN calls :
        calls[k].op = "tx" =>
            LET curve == calls[k - 1].ret.curve
                sn    == calls[k].snellen
            IN  /\ sn.reported <=> CurveDownCrossings(curve) # {}
                /\ sn.reported =>
                      /\ sn.cutoff > 0
                      /\ sn.cutoff <= MAX_HUMAN_CUTOFF_CPD
                      /\ Within(sn.cutoff,
                                curve[Least(CurveDownCrossings(curve)) - 1].freq,
                                curve[Least(CurveDownCrossings(curve))].freq)

\* A prediction has been reported for a curve that starts below 0, rises
\* above it and falls below it again.
SnellenReportedWitness ==
    /\ LastCall.op = "tx"
    /\ LastCall.snellen.reported
    /\ calls[Len(calls) - 1].ret.curve[1].logS < 0
    /\ IsFinite(calls[Len(calls) - 1].ret.curve[1].logS)

\* The results messages sent by the last step.
ResultsMessages == {calls[k] : k \in {j \in DOMAIN calls : calls[j].op = "tx"}}

\* C21 as stated: in a results message every landmark passes exactly when
\* the sensitivity reported for it is at least the one needed, and passCount
\* counts the landmarks that pass.
LandmarkPassMatchesReported ==
    \A m \in ResultsMessages :
        /\ \A i \in DOMAIN m.landmarks :
               m.landmarks[i].pass <=>
                   Ge(m.landmarks[i].yours, m.landmarks[i].needed)
        /\ m.passCount = Cardinality({i \in DOMAIN m.landmarks : m.landmarks[i].pass})

\* C21: in a results message every landmark passes exactly when 10^logS at
\* its frequency, for the parameters of the result, is at least the
\* sensitivity needed; the reported sensitivity is the rounding of that
\* value to a whole number (so a failed landmark may show the needed value),
\* and passCount counts the landmarks that pass.
LandmarkPassMatchesSensitivity ==
    \A m \in ResultsMessages :
        /\ Len(m.landmarks) = Len(LANDMARKS)
        /\ m.totalLandmarks = Len(LANDMARKS)
        /\ \A i \in DOMAIN m.landmarks :
               LET sens == Pow10(logParabolaCSF(LANDMARKS[i].freq, m.csfParams.peakGain,
                                                m.csfParams.peakFreq, m.csfParams.bandwidth,
                                                m.csfParams.truncation))
               IN  /\ m.landmarks[i].needed = LANDMARKS[i].sens
                   /\ m.landmarks[i].pass <=>
                          (IsFinite(sens) /\ sens >= LANDMARKS[i].sens * SCALE)
                   /\ IsFinite(sens) =>
                          /\ m.landmarks[i].yours * SCALE <= sens + 500
                          /\ m.landmarks[i].yours * SCALE > sens - 500
        /\ m.passCount = Cardinality({i \in DOMAIN m.landmarks : m.landmarks[i].pass})

\* A landmark has failed although the sensitivity reported for it is the
\* one needed, next to a landmark that passed.
LandmarkRoundedUpWitness ==
    /\ LastCall.op = "tx"
    /\ \E i \in DOMAIN LastCall.landmarks :
           /\ ~LastCall.landmarks[i].pass
           /\ LastCall.landmarks[i].yours = LastCall.landmarks[i].needed
    /\ LastCall.passCount > 0

\* The frequency of sample i of the 501 of the area.
AreaSampleFreq(i) ==
    Pow10(Add(Log10(500),
              Mul(i * SCALE, Div(Sub(Log10(36000), Log10(500)), AULCSF_N * SCALE))))

\* logS is above 0 at none of the samples.
NowhereAboveZero(p) ==
    \A i \in 0..AULCSF_N :
        LET logS == logParabolaCSF(AreaSampleFreq(i), p.peakGain, p.peakFreq,
                                   p.bandwidth, p.truncation)
        IN  IsNaN(logS) \/ logS <= 0

\* C22: computeAULCSF returns a finite value >= 0 for every parameter point,
\* and exactly 0 when logS <= 0 at all 501 sample frequencies; the area of
\* every result computed from an engine is >= 0 as well.
AreaIsNonNegative ==
    /\ \A k \in DOMAIN calls :
           calls[k].op = "computeAULCSF" /\ "ret" \in DOMAIN calls[k] =>
               /\ IsFinite(calls[k].ret)
               /\ calls[k].ret >= 0
               /\ NowhereAboveZero(calls[k].params) => calls[k].ret = 0
    /\ \A m \in ResultsMessages : IsFinite(m.score) /\ m.score >= 0

\* The area of a finite curve that lies below 0 everywhere has been computed.
AreaOfCurveBelowZero ==
    /\ LastCall.op = "computeAULCSF"
    /\ "ret" \in DOMAIN LastCall
    /\ LastCall.params.peakGain = -500
    /\ LastCall.ret = 0

\* C23: on an engine whose parameter grid is a single point, the posterior
\* mass on index 0 is 1.0 after every update, whatever the stimulus index
\* and the response.
SinglePointPosteriorIsOne ==
    (HasEngine /\ LastCall.op = "update" /\ engine.nParams = 1)
        => engine.prior[1] = SCALE

\* A single-point engine has been updated with an index past its stimulus
\* grid, and its posterior is NaN.
SinglePointPosteriorLost ==
    /\ HasEngine
    /\ LastCall.op = "update"
    /\ engine.nParams = 1
    /\ LastCall.stimIndex = engine.nStim
    /\ IsNaN(engine.prior[1])

\* C24: the stimulus selectStimulus returns is determined by the
\* configuration and the responses given so far: another run on an engine in
\* the same state returns the same stimIndex.  (The configuration holds no
\* seed; the only other input of the choice is Math.random().)
SelectionIsReproducible ==
    (HasEngine /\ LastCall.op = "selectStimulus" /\ ~LastCall.ret.threw)
        => \A r \in SelectRandoms :
               selectStimulus(engine, r).stimIndex = LastCall.ret.stimIndex

\* During the warm-up two runs on the same engine have returned different
\* stimuli.
SelectionDiffersBetweenRuns ==
    /\ HasEngine
    /\ LastCall.op = "selectStimulus"
    /\ ~LastCall.ret.threw
    /\ engine.trialCount > 0
    /\ engine.trialCount < 8
    /\ selectStimulus(engine, 0).stimIndex # LastCall.ret.stimIndex

\* C25: whenever a test has been started, the calibration it uses has
\* pxPerMm > 0 and a viewing distance of 200 .. 30000 mm.
StartedTestIsCalibrated ==
    cal # NoCal => /\ Gt(cal.pxPerMm, 0)
                   /\ Ge(cal.distMm, 200 * SCALE)
                   /\ Le(cal.distMm, 30000 * SCALE)

\* A test has been started from the summary step, past calValidate, with a
\* viewing distance that is no number.
StartedTestWithoutDistance ==
    /\ cal # NoCal
    /\ calStep = 4
    /\ FirstOp(calls) = "createMode"
    /\ IsNaN(cal.distMm)
    /\ ~IsNaN(dv)

(***************************************************************************)
(* The filter core: fft1d and fft2d (src/csf-plot.js)                      *)
(***************************************************************************)

\* j & bit and j ^ bit on non-negative integers.
RECURSIVE BitAnd(_, _)
BitAnd(a, b) ==
    IF a = 0 \/ b = 0 THEN 0
    ELSE (a % 2) * (b % 2) + 2 * BitAnd(a \div 2, b \div 2)

RECURSIVE BitXor(_, _)
BitXor(a, b) ==
    IF a = 0 THEN b
    ELSE IF b = 0 THEN a
    ELSE ((a + b) % 2) + 2 * BitXor(a \div 2, b \div 2)

\* A read of element i of a Float64Array in arithmetic: undefined, hence NaN,
\* outside the array.
At(arr, i) == IF i + 1 \in DOMAIN arr THEN arr[i + 1] ELSE NaN

\* A write of element i of a Float64Array: dropped outside the array.
Put(arr, i, v) == IF i + 1 \in DOMAIN arr THEN [arr EXCEPT ![i + 1] = v] ELSE arr

\* for (; j & bit; bit >>= 1) j ^= bit;  j ^= bit;
RECURSIVE NextReversed(_, _)
NextReversed(j, bit) ==
    IF BitAnd(j, bit) # 0 THEN NextReversed(BitXor(j, bit), bit \div 2)
    ELSE BitXor(j, bit)

\* The swap of the elements i and j of both buffers.
Swap(buf, i, j) ==
    [re |-> Put(Put(buf.re, i, At(buf.re, j)), j, At(buf.re, i)),
     im |-> Put(Put(buf.im, i, At(buf.im, j)), j, At(buf.im, i))]

\* The bit reversal loop of fft1d from index i on, j being the reversed i - 1.
RECURSIVE Permute(_, _, _)
Permute(buf, i, j) ==
    IF i >= Len(buf.re) THEN buf
    ELSE Permute(IF i < NextReversed(j, Len(buf.re) \div 2)
                 THEN Swap(buf, i, NextReversed(j, Len(buf.re) \div 2))
                 ELSE buf,
                 i + 1, NextReversed(j, Len(buf.re) \div 2))

\* Math.cos and Math.sin of 2 * Math.PI / len, for the lengths the model reaches.
CosTurn(len) == CASE len = 2 -> -SCALE [] len = 4 -> 0 [] len = 8 -> 707
SinTurn(len) == CASE len = 2 -> 0 [] len = 4 -> SCALE [] len = 8 -> 707

\* wRe and wIm of one stage.
Twiddle(len, invert) ==
    [re |-> CosTurn(len), im |-> IF invert THEN -SinTurn(len) ELSE SinTurn(len)]

\* One butterfly, on the elements a and b = a + len/2, with the factor cur.
ButterflyAt(buf, a, b, cur) ==
    LET uRe == At(buf.re, a)
        uIm == At(buf.im, a)
        vRe == Sub(Mul(At(buf.re, b), cur.re), Mul(At(buf.im, b), cur.im))
        vIm == Add(Mul(At(buf.re, b), cur.im), Mul(At(buf.im, b), cur.re))
    IN  [re |-> Put(Put(buf.re, a, Add(uRe, vRe)), b, Sub(uRe, vRe)),
         im |-> Put(Put(buf.im, a, Add(uIm, vIm)), b, Sub(uIm, vIm))]

\* The stages of fft1d from stage len, block i, butterfly j on; cur is
\* (curRe, curIm).
RECURSIVE Butterflies(_, _, _, _, _, _)
Butterflies(buf, len, i, j, cur, invert) ==
    IF len > Len(buf.re) THEN buf
    ELSE IF i >= Len(buf.re)
         THEN Butterflies(buf, 2 * len, 0, 0, [re |-> SCALE, im |-> 0], invert)
    ELSE IF j >= len \div 2
         THEN Butterflies(buf, len, i + len, 0, [re |-> SCALE, im |-> 0], invert)
    ELSE Butterflies(ButterflyAt(buf, i + j, i + j + len \div 2, cur), len, i, j + 1,
                     [re |-> Sub(Mul(cur.re, Twiddle(len, invert).re),
                                 Mul(cur.im, Twiddle(len, invert).im)),
                      im |-> Add(Mul(cur.re, Twiddle(len, invert).im),
                                 Mul(cur.im, Twiddle(len, invert).re))],
                     invert)

\* A variant of the last loop that leaves the inverse unscaled.
fftScale_none(buf, invert) == buf

\* if (invert) every element is divided by n.
fftScale(buf, invert) ==
    IF invert
    THEN [re |-> [k \in DOMAIN buf.re |-> Div(buf.re[k], Len(buf.re) * SCALE)],
          im |-> [k \in DOMAIN buf.im |-> Div(buf.im[k], Len(buf.re) * SCALE)]]
    ELSE buf

\* fft1d(re, im, invert): the buffers after the call.  There is no check of
\* the length.
fft1d(buf, invert) ==
    fftScale(Butterflies(Permute(buf, 1, 0), 2, 0, 0, [re |-> SCALE, im |-> 0], invert),
             invert)

\* Row y of an N by N buffer as a Float64Array(N), and the buffer with row y
\* replaced.
RowOf(arr, N, y) == [x \in 1..N |-> At(arr, y * N + x - 1)]
WithRow(arr, N, y, row) ==
    [k \in DOMAIN arr |-> IF (k - 1) \div N = y THEN row[((k - 1) % N) + 1] ELSE arr[k]]

\* Column x likewise.
ColOf(arr, N, x) == [y \in 1..N |-> At(arr, (y - 1) * N + x)]
WithCol(arr, N, x, col) ==
    [k \in DOMAIN arr |-> IF (k - 1) % N = x THEN col[((k - 1) \div N) + 1] ELSE arr[k]]

\* The first loop of fft2d, from row y on.
RECURSIVE fftRows(_, _, _, _)
fftRows(buf, N, y, invert) ==
    IF y >= N THEN buf
    ELSE LET row == fft1d([re |-> RowOf(buf.re, N, y), im |-> RowOf(buf.im, N, y)], invert)
         IN  fftRows([re |-> WithRow(buf.re, N, y, row.re),
                      im |-> WithRow(buf.im, N, y, row.im)], N, y + 1, invert)

\* The second loop of fft2d, from column x on.
RECURSIVE fftCols(_, _, _, _)
fftCols(buf, N, x, invert) ==
    IF x >= N THEN buf
    ELSE LET col == fft1d([re |-> ColOf(buf.re, N, x), im |-> ColOf(buf.im, N, x)], invert)
         IN  fftCols([re |-> WithCol(buf.re, N, x, col.re),
                      im |-> WithCol(buf.im, N, x, col.im)], N, x + 1, invert)

\* fft2d(re, im, N, invert): the buffers after the call.
fft2d(buf, N, invert) == fftCols(fftRows(buf, N, 0, invert), N, 0, invert)

\* Sides of the images, and fft2d calls followed on one image.
MaxFftN == 4
MaxPasses == 2

\* Pixels of a template image before filtering, (value / 255) - 0.5, in units.
Pixels == {-500, 0, 500}

\* The images of side N the model filters: every image of side 1 and 2; for
\* larger sides a single bright pixel on dark ground, at every place.
Images(N) ==
    IF N <= 2 THEN [1..(N * N) -> Pixels]
    ELSE {[k \in 1..(N * N) |-> IF k = p THEN 500 ELSE -500] : p \in 1..(N * N)}

\* The buffers applyBandpassFilter builds for an image of
\* generateFilteredTemplates, N being options.resolution.
LoadImage(N, image) ==
    /\ fftN' = N
    /\ re' = image
    /\ im' = [k \in 1..(N * N) |-> 0]
    /\ input' = image
    /\ passes' = <<>>
    /\ calls' = <<>>
    /\ UNCHANGED <<engine, warnings, ctlVars, instanceVars, calVars, displayVars>>
    /\ UNCHANGED massVars
    /\ UNCHANGED hostVars
    /\ UNCHANGED handoffVars
    /\ UNCHANGED shrinkVars

\* fft2d(re, im, N, invert) on the loaded buffers.
Fft2d(invert) ==
    /\ fftN > 0
    /\ Len(passes) < MaxPasses
    /\ re' = fft2d([re |-> re, im |-> im], fftN, invert).re
    /\ im' = fft2d([re |-> re, im |-> im], fftN, invert).im
    /\ passes' = Append(passes, invert)
    /\ calls' = <<>>
    /\ UNCHANGED <<fftN, input>>
    /\ UNCHANGED <<engine, warnings, ctlVars, instanceVars, calVars, displayVars>>
    /\ UNCHANGED massVars
    /\ UNCHANGED hostVars
    /\ UNCHANGED handoffVars
    /\ UNCHANGED shrinkVars

NextFft ==
    \/ \E N \in 1..MaxFftN : \E image \in Images(N) : LoadImage(N, image)
    \/ \E invert \in BOOLEAN : Fft2d(invert)

SpecFft == Init /\ [][NextFft]_vars

(***************************************************************************)
(* The posterior over a long run of updates                                *)
(***************************************************************************)

\* Updates followed on the long-run engine.
MaxMassTrials == 700

\* update(stimIndex, detected) on the long-run engine.  After the first
\* FreeResponses trials the stimulus at full contrast is shown again and
\* again, and the observer answers wrongly.
UpdateMass(stimIndex, detected) ==
    /\ massTrials < MaxMassTrials
    /\ massTrials >= FreeResponses => (stimIndex = ContrastSteps - 1 /\ ~detected)
    /\ mass' = updateMass(LongRunEngine, mass, stimIndex, detected)
    /\ massTrials' = massTrials + 1
    /\ calls' = <<>>
    /\ UNCHANGED <<engine, warnings, ctlVars, instanceVars, calVars, displayVars, fftVars>>
    /\ UNCHANGED hostVars
    /\ UNCHANGED handoffVars
    /\ UNCHANGED shrinkVars

\* Stimuli shown in the long run: the first and the last of the grid at 4 cpd.
MassStimuli == {0, ContrastSteps - 1}

NextMass ==
    \E stimIndex \in MassStimuli, detected \in BOOLEAN : UpdateMass(stimIndex, detected)

SpecMass == Init /\ [][NextMass]_vars

(***************************************************************************)
(* The display's host: peer-sync.js createHost, and initSync before it      *)
(***************************************************************************)

\* An id or a code is the sequence of its characters.
\* codeToId(code)
codeToId(code) == <<"b", "v", "l", "-">> \o [i \in DOMAIN code |-> toLowerCase(code[i])]

\* safariId(): 'csf' and a suffix of the clock and a random number.
safariId(suffix) == <<"c", "s", "f">> \o suffix

\* shortCode() draws four of CODE_CHARS.
ShortCodes == {<<"C", "D", "H", "K">>, <<"N", "R", "S", "V">>}

SafariSuffixes == {<<"1">>, <<"2">>}

MaxRetries == 2

MaxConns == 3

\* displayGenerateCode(): a prior host is destroyed, the code and the QR code
\* are put on the page, then createHost(..., peerId) asks the broker for the id.
DisplayGenerateCode(code) ==
    /\ shownCode' = code
    /\ qrId' = codeToId(code)
    /\ activePeerId' = codeToId(code)
    /\ peerOpen' = FALSE
    /\ retries' = 0
    /\ conns' = <<>>
    /\ conn' = 0
    /\ activeConn' = 0
    /\ opened' = <<>>
    /\ lastSend' = "none"
    /\ calls' = <<>>
    /\ UNCHANGED <<engine, warnings, ctlVars, instanceVars, calVars, displayVars, fftVars, massVars>>
    /\ UNCHANGED handoffVars
    /\ UNCHANGED shrinkVars

\* peer.on('open'): the broker registered the peer; onReady only logs the id.
PeerOpened ==
    /\ activePeerId # <<>>
    /\ ~peerOpen
    /\ peerOpen' = TRUE
    /\ calls' = <<>>
    /\ UNCHANGED <<shownCode, qrId, activePeerId, retries, conns, conn, activeConn, opened, lastSend>>
    /\ UNCHANGED <<engine, warnings, ctlVars, instanceVars, calVars, displayVars, fftVars, massVars>>
    /\ UNCHANGED handoffVars
    /\ UNCHANGED shrinkVars

\* peer.on('error') with type 'unavailable-id': the peer is destroyed and
\* setupPeer runs again with a fresh safariId().
UnavailableId(suffix) ==
    /\ activePeerId # <<>>
    /\ ~peerOpen
    /\ retries < MaxRetries
    /\ activePeerId' = safariId(suffix)
    /\ retries' = retries + 1
    /\ calls' = <<>>
    /\ UNCHANGED <<shownCode, qrId, peerOpen, conns, conn, activeConn, opened, lastSend>>
    /\ UNCHANGED <<engine, warnings, ctlVars, instanceVars, calVars, displayVars, fftVars, massVars>>
    /\ UNCHANGED handoffVars
    /\ UNCHANGED shrinkVars

\* peer.on('connection', c): createHost only registers handlers on c; initSync
\* stores c in activeConn at once.
Connection ==
    /\ peerOpen
    /\ Len(conns) < MaxConns
    /\ conns' = Append(conns, "new")
    /\ activeConn' = Len(conns) + 1
    /\ calls' = <<>>
    /\ UNCHANGED <<shownCode, qrId, activePeerId, peerOpen, retries, conn, opened, lastSend>>
    /\ UNCHANGED <<engine, warnings, ctlVars, instanceVars, calVars, displayVars, fftVars, massVars>>
    /\ UNCHANGED handoffVars
    /\ UNCHANGED shrinkVars

\* c.on('open'): conn = c.
ConnOpen(c) ==
    /\ conns[c] = "new"
    /\ conns' = [conns EXCEPT ![c] = "open"]
    /\ conn' = c
    /\ opened' = Append(opened, c)
    /\ calls' = <<>>
    /\ UNCHANGED <<shownCode, qrId, activePeerId, peerOpen, retries, activeConn, lastSend>>
    /\ UNCHANGED <<engine, warnings, ctlVars, instanceVars, calVars, displayVars, fftVars, massVars>>
    /\ UNCHANGED handoffVars
    /\ UNCHANGED shrinkVars

\* c.on('close'): conn = null, and activeConn = null in initSync, whichever
\* connection c is.
ConnClose(c) ==
    /\ conns[c] = "open"
    /\ conns' = [conns EXCEPT ![c] = "closed"]
    /\ conn' = 0
    /\ activeConn' = 0
    /\ calls' = <<>>
    /\ UNCHANGED <<shownCode, qrId, activePeerId, peerOpen, retries, opened, lastSend>>
    /\ UNCHANGED <<engine, warnings, ctlVars, instanceVars, calVars, displayVars, fftVars, massVars>>
    /\ UNCHANGED handoffVars
    /\ UNCHANGED shrinkVars

\* get connected(): conn && conn.open, of the stored connection k.
connected(k) == k # 0 /\ conns[k] = "open"

\* send(msg): if (conn && conn.open) conn.send(msg).
Send ==
    /\ activePeerId # <<>>
    /\ lastSend' = IF connected(conn) THEN "sent" ELSE "dropped"
    /\ calls' = <<>>
    /\ UNCHANGED <<shownCode, qrId, activePeerId, peerOpen, retries, conns, conn, activeConn, opened>>
    /\ UNCHANGED <<engine, warnings, ctlVars, instanceVars, calVars, displayVars, fftVars, massVars>>
    /\ UNCHANGED handoffVars
    /\ UNCHANGED shrinkVars

NextHost ==
    \/ \E code \in ShortCodes : DisplayGenerateCode(code)
    \/ PeerOpened
    \/ \E suffix \in SafariSuffixes : UnavailableId(suffix)
    \/ Connection
    \/ \E c \in DOMAIN conns : ConnOpen(c)
    \/ \E c \in DOMAIN conns : ConnClose(c)
    \/ Send

SpecHost == Init /\ [][NextHost]_vars

(***************************************************************************)
(* Phone-first pairing: createTemporaryHost on the remote page and         *)
(* createHandoffClient on the display, on a clock of 100 ms steps          *)
(***************************************************************************)

\* setTimeout(..., 500) of the handoff client, in 100 ms.
ResendDelay == 5

\* setTimeout(..., 400) of the remote page's onHandoff callback, in 100 ms.
TeardownDelay == 4

\* The longest time a message or a close takes from one page to the other.
MaxLatency == 3

MaxClock == 12

Latencies == 0..MaxLatency

\* The channel is ordered: a message arrives no earlier than the one before it.
Arrival(w, t) == IF w # <<>> /\ w[Len(w)] > t THEN w[Len(w)] ELSE t

\* startRemotePairing(): tempHost = createTemporaryHost(...).
StartRemotePairing ==
    /\ tempHost = "null"
    /\ redirects = 0
    /\ tempHost' = "host"
    /\ calls' = <<>>
    /\ UNCHANGED <<clock, wire, resent, handoffConnOpen, closeAt, teardowns,
                   onHandoffRuns, redirects, nullDestroys, unloaded>>
    /\ UNCHANGED <<engine, warnings, ctlVars, instanceVars, calVars, displayVars, fftVars, massVars, hostVars>>
    /\ UNCHANGED shrinkVars

\* handoffConn.on('open'): the handoff message is sent and the 500 ms timer set.
HandoffOpen(latency) ==
    /\ tempHost = "host"
    /\ clock = -1
    /\ clock' = 0
    /\ handoffConnOpen' = TRUE
    /\ wire' = <<latency>>
    /\ calls' = <<>>
    /\ UNCHANGED <<resent, closeAt, tempHost, teardowns, onHandoffRuns, redirects,
                   nullDestroys, unloaded>>
    /\ UNCHANGED <<engine, warnings, ctlVars, instanceVars, calVars, displayVars, fftVars, massVars, hostVars>>
    /\ UNCHANGED shrinkVars

\* The 500 ms timer: the message is sent again if handoffConn is still open.
Resend(latency) ==
    /\ clock = ResendDelay
    /\ ~resent
    /\ resent' = TRUE
    /\ wire' = IF handoffConnOpen THEN Append(wire, Arrival(wire, clock + latency)) ELSE wire
    /\ calls' = <<>>
    /\ UNCHANGED <<clock, handoffConnOpen, closeAt, tempHost, teardowns, onHandoffRuns,
                   redirects, nullDestroys, unloaded>>
    /\ UNCHANGED <<engine, warnings, ctlVars, instanceVars, calVars, displayVars, fftVars, massVars, hostVars>>
    /\ UNCHANGED shrinkVars

\* c.on('data') of the temporary host: every handoff message calls onHandoff,
\* which sets the 400 ms timeout.  A destroyed host receives nothing.
Deliver ==
    /\ wire # <<>>
    /\ Head(wire) <= clock
    /\ ~unloaded
    /\ wire' = Tail(wire)
    /\ IF tempHost = "host"
       THEN /\ onHandoffRuns' = onHandoffRuns + 1
            /\ teardowns' = Append(teardowns, clock + TeardownDelay)
       ELSE UNCHANGED <<onHandoffRuns, teardowns>>
    /\ calls' = <<>>
    /\ UNCHANGED <<clock, resent, handoffConnOpen, closeAt, tempHost, redirects,
                   nullDestroys, unloaded>>
    /\ UNCHANGED <<engine, warnings, ctlVars, instanceVars, calVars, displayVars, fftVars, massVars, hostVars>>
    /\ UNCHANGED shrinkVars

\* The timeout of onHandoff: tempHost.destroy(); tempHost = null; location.href = ...
\* On a tempHost that is null already the first statement throws.
Teardown(latency) ==
    /\ teardowns # <<>>
    /\ Head(teardowns) <= clock
    /\ ~unloaded
    /\ teardowns' = Tail(teardowns)
    /\ IF tempHost = "host"
       THEN /\ tempHost' = "null"
            /\ redirects' = redirects + 1
            /\ closeAt' = clock + latency
            /\ UNCHANGED nullDestroys
       ELSE /\ nullDestroys' = nullDestroys + 1
            /\ UNCHANGED <<tempHost, redirects, closeAt>>
    /\ calls' = <<>>
    /\ UNCHANGED <<clock, wire, resent, handoffConnOpen, onHandoffRuns, unloaded>>
    /\ UNCHANGED <<engine, warnings, ctlVars, instanceVars, calVars, displayVars, fftVars, massVars, hostVars>>
    /\ UNCHANGED shrinkVars

\* destroy() closes the connection; the display learns of it a latency later.
CloseArrives ==
    /\ handoffConnOpen
    /\ closeAt >= 0
    /\ closeAt <= clock
    /\ handoffConnOpen' = FALSE
    /\ calls' = <<>>
    /\ UNCHANGED <<clock, wire, resent, closeAt, tempHost, teardowns, onHandoffRuns,
                   redirects, nullDestroys, unloaded>>
    /\ UNCHANGED <<engine, warnings, ctlVars, instanceVars, calVars, displayVars, fftVars, massVars, hostVars>>
    /\ UNCHANGED shrinkVars

\* The navigation started by location.href commits: the page and its timers end.
Unload ==
    /\ redirects > 0
    /\ ~unloaded
    /\ unloaded' = TRUE
    /\ calls' = <<>>
    /\ UNCHANGED <<clock, wire, resent, handoffConnOpen, closeAt, tempHost, teardowns,
                   onHandoffRuns, redirects, nullDestroys>>
    /\ UNCHANGED <<engine, warnings, ctlVars, instanceVars, calVars, displayVars, fftVars, massVars, hostVars>>
    /\ UNCHANGED shrinkVars

\* An event that is due happens before the clock moves on.
Due ==
    \/ clock = ResendDelay /\ ~resent
    \/ handoffConnOpen /\ closeAt >= 0 /\ closeAt <= clock
    \/ ~unloaded /\ wire # <<>> /\ Head(wire) <= clock
    \/ ~unloaded /\ teardowns # <<>> /\ Head(teardowns) <= clock

\* 100 ms pass.
TickHandoff ==
    /\ clock >= 0
    /\ clock < MaxClock
    /\ ~Due
    /\ clock' = clock + 1
    /\ calls' = <<>>
    /\ UNCHANGED <<wire, resent, handoffConnOpen, closeAt, tempHost, teardowns,
                   onHandoffRuns, redirects, nullDestroys, unloaded>>
    /\ UNCHANGED <<engine, warnings, ctlVars, instanceVars, calVars, displayVars, fftVars, massVars, hostVars>>
    /\ UNCHANGED shrinkVars

NextHandoff ==
    \/ StartRemotePairing
    \/ \E latency \in Latencies : HandoffOpen(latency)
    \/ \E latency \in Latencies : Resend(latency)
    \/ Deliver
    \/ \E latency \in Latencies : Teardown(latency)
    \/ CloseArrives
    \/ Unload
    \/ TickHandoff

SpecHandoff == Init /\ [][NextHandoff]_vars

(***************************************************************************)
(* buildDisplayParams, one loop iteration at a step                        *)
(***************************************************************************)

\* Estimates handed to buildDisplayParams: inside and outside the ranges of
\* the default parameter grid.
BaseGains == {2800, 7000}
BasePeakFreqs == {2000, 4500, 10000, 18000}
BaseBandwidths == {800, 1950, 3000}
BaseTruncations == {1000, 2600, 3500}

BaseParams ==
    [peakGain : BaseGains, peakFreq : BasePeakFreqs,
     bandwidth : BaseBandwidths, truncation : BaseTruncations]

\* Engines handed to buildDisplayParams: none and two of the trials at 4 cpd.
ShrinkEngines ==
    {LongRunEngine, update(update(LongRunEngine, 0, TRUE), 0, TRUE)}

\* buildDisplayParams up to its loop: the sparse-sampling bias and the guards.
BeginDisplayParams(e, baseParams) ==
    /\ adjusted = NoParams
    /\ adjusted' = GlobalGuards(SparseBias(e, baseParams))
    /\ iterations' = 0
    /\ calls' = <<>>
    /\ UNCHANGED <<engine, warnings, ctlVars, instanceVars, calVars, displayVars, fftVars, massVars, hostVars, handoffVars>>

\* One iteration of the loop that does not break.
ShrinkIteration ==
    /\ adjusted # NoParams
    /\ iterations < 5
    /\ ~Le(estimateCutoffCpd(adjusted), 42000)
    /\ adjusted' = CutoffShrink(adjusted, 1)
    /\ iterations' = iterations + 1
    /\ calls' = <<>>
    /\ UNCHANGED <<engine, warnings, ctlVars, instanceVars, calVars, displayVars, fftVars, massVars, hostVars, handoffVars>>

NextShrink ==
    \/ \E e \in ShrinkEngines, baseParams \in BaseParams : BeginDisplayParams(e, baseParams)
    \/ ShrinkIteration

SpecShrink == Init /\ [][NextShrink]_vars

\* The update calls made by the step into the current state.
ScoredCalls == {k \in DOMAIN calls : calls[k].op = "update"}

\* C26: no response is scored for a stimulus that was not rendered: a step
\* that makes an update call scores the stimulus standing on the canvas.
OnlyRenderedStimulusScored ==
    [][\A k \in DOMAIN calls' :
           calls'[k].op = "update" => shown = calls'[k].stimIndex]_vars

\* C26 (case): after a generate that threw, a response has been scored although
\* nothing was ever drawn.
ScoredWithoutRender ==
    /\ mode # NoMode /\ mode.id = "tumblingE"
    /\ ~data
    /\ shown = -1
    /\ ScoredCalls # {}

\* Whether n is a power of two.
IsPowerOfTwo(n) == \E k \in 0..30 : n = TwoTo(k)

\* C27: an image whose side is not a power of two is rejected before any
\* transform: no fft2d call is ever made on its buffers.
NonPowerOfTwoNeverTransformed ==
    ~IsPowerOfTwo(fftN) => passes = <<>>

\* C27 (case): an image of side 3 has been transformed forward and back, and
\* the buffers hold NaN where the butterflies read past the row.
NonPowerOfTwoTransformed ==
    /\ fftN = 3
    /\ passes = <<FALSE, TRUE>>
    /\ \E k \in DOMAIN re : IsNaN(re[k])

CombinationCount(cfg) ==
    Len(cfg.peakGainValues) * Len(cfg.peakFreqValues)
        * Len(cfg.bandwidthValues) * Len(cfg.truncationValues)

\* logS at 60 cpd of a grid point.
LogSAtCutoff(p) == logParabolaCSF(MAX_HUMAN_CUTOFF_CPD, p.g, p.f, p.b, p.d)

PlaceOf(ee, s) == Cardinality({j \in 1..Len(ee) : j # s /\ SortsBefore(ee, j, s)})

\* |logContrast - predicted boundary| of a stimulus.
BoundaryDistance(stim, pHat) ==
    LET boundaryDelta == Sub(stim.logContrast, Sub(0, evaluateCSF(stim.freq, pHat)))
    IN  IF Lt(boundaryDelta, 0) THEN Sub(0, boundaryDelta) ELSE boundaryDelta

\* Stimuli s and t of engine e have the same raw expected entropy and the same
\* frequency weight, and s is the closer one to the predicted boundary.
CloserTwin(e, pHat, s, t) ==
    /\ RawExpectedEntropy(e, s) = RawExpectedEntropy(e, t)
    /\ MidFreqWeight(e, e.stimGrid[s]) = MidFreqWeight(e, e.stimGrid[t])
    /\ Lt(BoundaryDistance(e.stimGrid[s], pHat), BoundaryDistance(e.stimGrid[t], pHat))

\* In the ranking ee of engine e the closer of two such stimuli never comes later.
CloserNeverLater(e, ee, pHat) ==
    \A s, t \in 1..e.nStim :
        CloserTwin(e, pHat, s, t) => PlaceOf(ee, s) <= PlaceOf(ee, t)

\* C30: when selectStimulus ranks two stimuli with equal raw expected entropy
\* and equal frequency weight, the one whose log-contrast is closer to the
\* predicted boundary is ranked no later than the other.
CloserStimulusRankedNoLater ==
    (HasEngine /\ LastCall.op = "selectStimulus" /\ ~LastCall.ret.threw)
        => CloserNeverLater(engine, ExpectedEntropies(engine), getExpectedEstimate(engine))

\* In the ranking ee of engine e a stimulus comes later than its twin farther
\* from the boundary, because its weighted entropy is the larger one.
CloserComesLater(e, ee, pHat) ==
    \E s, t \in 1..e.nStim :
        /\ CloserTwin(e, pHat, s, t)
        /\ Gt(RawExpectedEntropy(e, s), 0)
        /\ Gt(ee[s], ee[t])
        /\ PlaceOf(ee, s) > PlaceOf(ee, t)

\* C30 (case): selectStimulus has ranked a stimulus behind its twin farther
\* from the boundary.
CloserStimulusRankedLater ==
    /\ HasEngine
    /\ LastCall.op = "selectStimulus"
    /\ ~LastCall.ret.threw
    /\ CloserComesLater(engine, ExpectedEntropies(engine), getExpectedEstimate(engine))

\* Whether a stimulus lies in the low/mid band [1, 5] cpd.
InMidBand(stim) == Ge(stim.freq, 1000) /\ Le(stim.freq, 5000)

\* Stimuli s and t of engine e have the same raw expected entropy and the same
\* boundary weight; s lies in the band [1, 5] cpd and t outside it.
MidBandTwin(e, pHat, s, t) ==
    /\ RawExpectedEntropy(e, s) = RawExpectedEntropy(e, t)
    /\ BoundaryWeight(e, e.stimGrid[s], pHat) = BoundaryWeight(e, e.stimGrid[t], pHat)
    /\ InMidBand(e.stimGrid[s])
    /\ ~InMidBand(e.stimGrid[t])

\* In the ranking ee of engine e the stimulus in the band never comes later
\* than such a twin outside it.
MidBandNeverLater(e, ee, pHat) ==
    \A s, t \in 1..e.nStim :
        MidBandTwin(e, pHat, s, t) => PlaceOf(ee, s) <= PlaceOf(ee, t)

\* C31: when selectStimulus ranks two stimuli with equal raw expected entropy
\* and equal boundary weight, the one with frequency in [1, 5] cpd is ranked
\* no later than the one with frequency outside [1, 5] cpd.
MidBandStimulusRankedNoLater ==
    (HasEngine /\ LastCall.op = "selectStimulus" /\ ~LastCall.ret.threw)
        => MidBandNeverLater(engine, ExpectedEntropies(engine), getExpectedEstimate(engine))

\* In the ranking ee of engine e a stimulus in the band comes later than its
\* twin outside the band, because its weighted entropy is the larger one.
MidBandComesLater(e, ee, pHat) ==
    \E s, t \in 1..e.nStim :
        /\ MidBandTwin(e, pHat, s, t)
        /\ Gt(RawExpectedEntropy(e, s), 0)
        /\ Gt(ee[s], ee[t])
        /\ PlaceOf(ee, s) > PlaceOf(ee, t)

\* C31 (case): selectStimulus has ranked a stimulus of the band [1, 5] cpd
\* behind its twin outside the band.
MidBandStimulusRankedLater ==
    /\ HasEngine
    /\ LastCall.op = "selectStimulus"
    /\ ~LastCall.ret.threw
    /\ MidBandComesLater(engine, ExpectedEntropies(engine), getExpectedEstimate(engine))

\* C32: with an observer who keeps pressing keys of the keyboard handler, a
\* started test eventually reaches the results phase.
StartedTestReachesResults ==
    (testStarted /\ ~testComplete) ~> (testComplete \/ ~testStarted)

\* C32 (case): a test is running, the debounce time has passed, and none of
\* the values the keyboard handler emits is a key of the mode.
KeyboardResponsesIgnored ==
    /\ testStarted /\ ~testComplete /\ ~inTutorial /\ ~inPreTest
    /\ currentStim # NoStim /\ mode # NoMode
    /\ sinceInput >= DEBOUNCE_MS
    /\ \A value \in KeyboardValues : value \notin KeySet(mode)

\* C33: on an engine with a non-empty stimulus grid selectStimulus returns a
\* stimulus, and its stimIndex is an index of the grid.
SelectedIndexInGrid ==
    (HasEngine /\ LastCall.op = "selectStimulus" /\ engine.nStim > 0)
        => /\ ~LastCall.ret.threw
           /\ LastCall.ret.stimIndex >= 0
           /\ LastCall.ret.stimIndex < engine.nStim

\* C33 (case): during the first 8 trials, on a grid of fewer than 5 stimuli,
\* selectStimulus has thrown instead of returning a stimulus.
SmallGridSelectionThrew ==
    /\ HasEngine
    /\ LastCall.op = "selectStimulus"
    /\ engine.nStim > 0 /\ engine.nStim < 5
    /\ engine.nParams > 0
    /\ engine.trialCount < 8
    /\ LastCall.ret.threw

\* C34: after any sequence of updates with valid stimulus indices every
\* parameter point has a strictly positive posterior mass.
EveryHypothesisKeepsMass ==
    \A h \in DOMAIN mass : mass[h].m > 0

\* C34 (case): after a run of updates with valid stimulus indices a parameter
\* point has the posterior mass 0, while another holds the mass.
HypothesisEliminated ==
    /\ massTrials > 0
    /\ \E h \in DOMAIN mass : mass[h].m = 0
    /\ \E h \in DOMAIN mass : mass[h].m > 0

\* The connection that opened last.
MostRecentlyOpened == opened[Len(opened)]

\* C35: whenever the most recently opened data connection is still open, the
\* host reports connected and send() transmits, in createHost and in initSync.
OpenConnectionIsTracked ==
    (opened # <<>> /\ conns[MostRecentlyOpened] = "open")
        => (connected(conn) /\ connected(activeConn))

\* C35: an earlier connection has closed, the latest one is open, and send()
\* dropped its message.
OpenConnectionLost ==
    /\ opened # <<>>
    /\ conns[MostRecentlyOpened] = "open"
    /\ \E c \in DOMAIN conns : c # MostRecentlyOpened /\ conns[c] = "closed"
    /\ conn = 0
    /\ lastSend = "dropped"

\* C36: during one phone-first pairing onHandoff runs at most once, the remote
\* page makes one teardown-and-redirect and never calls destroy on a tempHost
\* that has been cleared.
HandoffHandledOnce ==
    /\ onHandoffRuns <= 1
    /\ redirects <= 1
    /\ nullDestroys = 0

\* C36: both handoff messages reached onHandoff, and the second timeout called
\* destroy on the cleared tempHost.
SecondTeardownOnClearedHost ==
    /\ onHandoffRuns = 2
    /\ redirects = 1
    /\ tempHost = "null"
    /\ nullDestroys = 1

\* C37: the code and the QR code on the page name the id under which the
\* host is registered with the broker.
ShownCodeIsRegisteredId ==
    peerOpen => (codeToId(shownCode) = activePeerId /\ qrId = activePeerId)

\* C37: the host is registered after a retry, under an id the page does not show.
RegisteredUnderRetryId ==
    /\ peerOpen
    /\ retries > 0
    /\ qrId # activePeerId
    /\ codeToId(shownCode) # activePeerId

\* C38: the first trial of a test is shown only by the step that ends the
\* pre-test, after every tutorial step was answered with its key in order
\* (the last step is on display and the tutorial has ended), and the test is
\* started by then.
FirstTrialAfterTutorialAndPreTest ==
    [][(currentStim = NoStim /\ currentStim' # NoStim)
          => (inPreTest /\ ~inTutorial /\ tutStep = Len(TUT) - 1 /\ testStarted')]_vars

\* C38: a trial is on display while the first tutorial step is still unanswered.
TrialBeforeTutorialAnswered ==
    /\ testStarted
    /\ currentStim # NoStim
    /\ tutStep = 0

\* A call of the multi-mode controller's handleInput, with a value that is
\* none of the mode's keys, and with any value.
NonKeyInputMulti ==
    /\ mode # NoMode
    /\ \E value \in MultiInputs \ KeySet(mode), r \in CtlRandoms, a \in MultiRandoms :
           HandleInputMulti(value, r, a)

AnyInputMulti ==
    /\ mode # NoMode
    /\ \E value \in MultiInputs, r \in CtlRandoms, a \in MultiRandoms :
           HandleInputMulti(value, r, a)

\* C39: responses are scored no less than DEBOUNCE_MS apart; a response that
\* comes sooner changes neither the engine nor the debounce timestamp; and a
\* response that is not one of the mode's keys leaves the timestamp as it is.
DebounceSparesEarlyAndNonKeyInputs ==
    [][/\ ScoredCalls' # {} => sinceInput >= DEBOUNCE_MS
       /\ (AnyInputMulti /\ sinceInput < DEBOUNCE_MS) => UNCHANGED <<engine, sinceInput>>
       /\ NonKeyInputMulti => UNCHANGED sinceInput]_vars

\* C39: in Sloan mode, where neither "up" nor "right" is a key, a response
\* has been scored and has started the debounce window.
NonKeyResponseScored ==
    /\ mode # NoMode
    /\ mode.id = "sloan"
    /\ MultiInputs \cap KeySet(mode) = {}
    /\ ScoredCalls # {}
    /\ sinceInput = 0

\* A step that runs one iteration of the loop of buildDisplayParams.
IterationRuns == adjusted # NoParams /\ iterations' = iterations + 1

\* C40, as claimed: an iteration of the cutoff-shrink loop never increases
\* peakFreq and never decreases bandwidth or truncation, whatever the
\* parameters it starts from, and the loop runs 5 iterations at most.
ShrinkNeverGrowsCurve ==
    [][/\ iterations' <= 5
       /\ IterationRuns =>
            /\ adjusted'.peakFreq <= adjusted.peakFreq
            /\ adjusted'.bandwidth >= adjusted.bandwidth
            /\ adjusted'.truncation >= adjusted.truncation]_vars

\* C40, amended: an iteration never increases a peakFreq of 2.2 cpd or more,
\* never decreases a bandwidth of 2.8 or less or a truncation of 3.2 or less,
\* and takes a parameter beyond its limit to the limit; the loop runs 5
\* iterations at most.
ShrinkMovesTowardsLimits ==
    [][/\ iterations' <= 5
       /\ IterationRuns =>
            /\ adjusted'.peakFreq <= MathMax(2200, adjusted.peakFreq)
            /\ adjusted'.bandwidth >= MathMin(2800, adjusted.bandwidth)
            /\ adjusted'.truncation >= MathMin(3200, adjusted.truncation)
            /\ adjusted'.peakGain = adjusted.peakGain]_vars

\* C40: the loop has run all of its 5 iterations and has brought a bandwidth
\* above 2.8 down to that limit.
ShrinkRanFiveTimes ==
    /\ adjusted # NoParams
    /\ iterations = 5
    /\ adjusted.bandwidth = 2800
    /\ adjusted.peakFreq < 10000

==============================================================================
